---- MODULE Spec2Model ----
(***************************************************************************)
(* Verification model of the a2afinaldemo agent pipeline:                  *)
(*   src/a2afinaldemo/src/a2a_utils.py    message envelopes                *)
(*   src/a2afinaldemo/src/a2a_servers.py  the three request handlers       *)
(*   src/a2afinaldemo/src/orchestrator.py the client connector and driver  *)
(*                                                                         *)
(* JSON values are tagged records [t, v]: t is the Python type and v a     *)
(* sequence of strings holding the content (the characters of a str, the   *)
(* row ids of a list, the entry kinds of a dict, the digit of a number).   *)
(* A payload (a Python dict with string keys) is a function from the keys  *)
(* present to values.                                                      *)
(***************************************************************************)
EXTENDS Naturals, Sequences, FiniteSets, TLC

\* ------------------------------------------------------------------ bounds
\* Longest `records` list a request or a response carries.
MaxRows == 2
\* Longest response stream an agent of another version answers with.
MaxEvents == 2
\* Requests one agent server has in flight at a time.
MaxRequests == 2
\* Tool calls the Visualizer's model makes in one run.
MaxToolCalls == 2
\* Longest text of an envelope sent over the wire on its own.
MaxText == 2
\* Invocations of the travel-planner graph on one thread.
MaxInvocations == 3

\* ------------------------------------------------------------------ values
VNull == [t |-> "null", v |-> <<>>]
VStr(s) == [t |-> "str", v |-> s]
VList(l) == [t |-> "list", v |-> l]
VDict(d) == [t |-> "dict", v |-> d]
VNum(n) == [t |-> "num", v |-> <<n>>]

\* Python truthiness: None, "", [], {} and 0 are falsy.
Truthy(x) ==
    CASE x.t = "null" -> FALSE
      [] x.t = "num" -> x.v # <<"0">>
      [] OTHER -> Len(x.v) > 0

IsNone(x) == x.t = "null"
IsList(x) == x.t = "list"

NL == "\n"
EmptyPayload == [k \in {} |-> VNull]

\* dict.get(key, default)
Get(p, k, d) == IF k \in DOMAIN p THEN p[k] ELSE d

\* The row lists of bounded length: <<>>, <<"r1">>, <<"r1","r2">>, ...
RowName(i) == IF i = 1 THEN "r1" ELSE IF i = 2 THEN "r2" ELSE IF i = 3 THEN "r3" ELSE "r4"
Rows(n) == [i \in 1..n |-> RowName(i)]
RowLists == {VList(Rows(n)) : n \in 0..MaxRows}

\* ---------------------------------------------------------------- messages
\* a2a.types.Message: only its ordered parts matter here.
TextPart(s) == [kind |-> "text", text |-> s, data |-> EmptyPayload]
DataPart(d) == [kind |-> "data", text |-> <<>>, data |-> d]

None == [some |-> FALSE, data |-> EmptyPayload]
Some(d) == [some |-> TRUE, data |-> d]

\* create_text_message_with_data testing `if data:` for `if data is not None:`.
create_text_message_with_data_Truthy(content, data) ==
    IF data.some /\ DOMAIN data.data # {}
    THEN <<TextPart(content), DataPart(data.data)>>
    ELSE <<TextPart(content)>>

create_text_message_with_data(content, data) ==
    IF data.some THEN <<TextPart(content), DataPart(data.data)>>
    ELSE <<TextPart(content)>>

create_agent_message(text, data) ==
    (IF Len(text) > 0 THEN <<TextPart(text)>> ELSE <<>>)
      \o (IF data.some THEN <<DataPart(data.data)>> ELSE <<>>)

RECURSIVE JoinFrom(_, _, _)
JoinFrom(parts, i, first) ==
    IF i > Len(parts) THEN <<>>
    ELSE IF parts[i].kind = "text"
         THEN (IF first THEN <<>> ELSE <<NL>>) \o parts[i].text
                \o JoinFrom(parts, i + 1, FALSE)
         ELSE JoinFrom(parts, i + 1, first)

\* "\n".join of the text parts, in order.
extract_text_from_message(message) == JoinFrom(message, 1, TRUE)

RECURSIVE FirstDataFrom(_, _)
FirstDataFrom(parts, i) ==
    IF i > Len(parts) THEN None
    ELSE IF parts[i].kind = "data" THEN Some(parts[i].data)
         ELSE FirstDataFrom(parts, i + 1)

\* The first structured-data part, or None.
get_data_part(message) == FirstDataFrom(message, 1)

\* `get_data_part(message) or {}`
DataOrEmpty(message) ==
    LET d == get_data_part(message)
    IN IF d.some /\ DOMAIN d.data # {} THEN d.data ELSE EmptyPayload

\* ---------------------------------------------------------- the wire shape
\* The JSON text of a message's parts is a sequence of tokens: the
\* punctuation, and the characters and atoms of its strings and numbers.
DQ == "\""
BS == "\\"

\* JSON string escaping of the quote, the backslash and the line feed.
RECURSIVE Escape(_)
Escape(s) ==
    IF s = <<>> THEN <<>>
    ELSE (CASE Head(s) = DQ -> <<BS, DQ>>
            [] Head(s) = BS -> <<BS, BS>>
            [] Head(s) = NL -> <<BS, "n">>
            [] OTHER -> <<Head(s)>>) \o Escape(Tail(s))

JsonString(s) == <<DQ>> \o Escape(s) \o <<DQ>>

\* A value of a data part: null, a string, a number, and lists and objects
\* written with their entries.
JsonValue(x) ==
    CASE x.t = "null" -> <<"null">>
      [] x.t = "str" -> JsonString(x.v)
      [] x.t = "list" -> <<"[">> \o x.v \o <<"]">>
      [] x.t = "dict" -> <<"{">> \o x.v \o <<"}">>
      [] OTHER -> x.v

RECURSIVE JsonMembers(_, _)
JsonMembers(p, keys) ==
    IF keys = {} THEN <<>>
    ELSE LET k == CHOOSE k \in keys : TRUE
         IN JsonString(<<k>>) \o <<":">> \o JsonValue(p[k])
              \o JsonMembers(p, keys \ {k})

JsonObject(p) == <<"{">> \o JsonMembers(p, DOMAIN p) \o <<"}">>

\* A part with its `kind` discriminator.
JsonPart(part) ==
    <<"{">> \o JsonString(<<"kind">>) \o <<":">> \o JsonString(<<part.kind>>)
      \o JsonString(<<part.kind>>) \o <<":">>
      \o (IF part.kind = "text" THEN JsonString(part.text) ELSE JsonObject(part.data))
      \o <<"}">>

RECURSIVE JsonParts(_)
JsonParts(parts) ==
    IF parts = <<>> THEN <<>> ELSE JsonPart(Head(parts)) \o JsonParts(Tail(parts))

\* Message.parts as the transport serialises it.
ToWire(message) == <<"[">> \o JsonParts(message) \o <<"]">>

\* Reading a JSON string whose opening quote is before position i.
RECURSIVE ScanString(_, _)
ScanString(w, i) ==
    IF w[i] = DQ THEN [chars |-> <<>>, next |-> i + 1]
    ELSE IF w[i] = BS
         THEN LET r == ScanString(w, i + 2)
              IN [chars |-> <<IF w[i + 1] = "n" THEN NL ELSE w[i + 1]>> \o r.chars,
                  next |-> r.next]
         ELSE LET r == ScanString(w, i + 1)
              IN [chars |-> <<w[i]>> \o r.chars, next |-> r.next]

\* Reading the entries of a list or object up to its closing token.
RECURSIVE ScanEntries(_, _, _)
ScanEntries(w, i, close) ==
    IF w[i] = close THEN [chars |-> <<>>, next |-> i + 1]
    ELSE LET r == ScanEntries(w, i + 1, close)
         IN [chars |-> <<w[i]>> \o r.chars, next |-> r.next]

ParseValue(w, i) ==
    CASE w[i] = "null" -> [val |-> VNull, next |-> i + 1]
      [] w[i] = DQ -> [val |-> VStr(ScanString(w, i + 1).chars),
                       next |-> ScanString(w, i + 1).next]
      [] w[i] = "[" -> [val |-> VList(ScanEntries(w, i + 1, "]").chars),
                        next |-> ScanEntries(w, i + 1, "]").next]
      [] w[i] = "{" -> [val |-> VDict(ScanEntries(w, i + 1, "}").chars),
                        next |-> ScanEntries(w, i + 1, "}").next]
      [] OTHER -> [val |-> VNum(w[i]), next |-> i + 1]

\* Reading the members of an object whose "{" is before position i.
RECURSIVE ParseMembers(_, _)
ParseMembers(w, i) ==
    IF w[i] = "}" THEN [map |-> EmptyPayload, next |-> i + 1]
    ELSE LET key == ScanString(w, i + 1)
             value == ParseValue(w, key.next + 1)
             rest == ParseMembers(w, value.next)
         IN [map |-> [k \in {key.chars[1]} \cup DOMAIN rest.map |->
                        IF k = key.chars[1] THEN value.val ELSE rest.map[k]],
             next |-> rest.next]

\* Reading one part: its kind decides whether a text or a mapping follows.
ParsePart(w, i) ==
    LET kind == ScanString(w, ScanString(w, i + 2).next + 2)
        field == ScanString(w, kind.next + 1)
        at == field.next + 1
    IN IF kind.chars = <<"text">>
       THEN [part |-> TextPart(ScanString(w, at + 1).chars),
             next |-> ScanString(w, at + 1).next + 1]
       ELSE [part |-> DataPart(ParseMembers(w, at + 1).map),
             next |-> ParseMembers(w, at + 1).next + 1]

RECURSIVE ParseParts(_, _)
ParseParts(w, i) ==
    IF w[i] = "]" THEN <<>>
    ELSE <<ParsePart(w, i).part>> \o ParseParts(w, ParsePart(w, i).next)

\* Message.parts as the receiver validates them from the wire.
FromWire(w) == ParseParts(w, 2)

\* ---------------------------------------------------------------- handlers
Roles == {"reader", "analyst", "visualizer"}

\* The model identifiers create_*_app configures.
HandlerModel(role) ==
    IF role = "visualizer" THEN VStr(<<"gpt-4o">>) ELSE VStr(<<"gpt-4o-mini">>)

BadRequest(msg) == [kind |-> "ServerError", error |-> "InvalidParamsError", message |-> msg]
PyError(cls) == [kind |-> cls, error |-> "", message |-> ""]
NoError == [kind |-> "", error |-> "", message |-> ""]

NoCall == [fn |-> "", args |-> EmptyPayload]
Raise(e) == [raised |-> TRUE, err |-> e, call |-> NoCall]
Invoke(fn, args) == [raised |-> FALSE, err |-> NoError, call |-> [fn |-> fn, args |-> args]]

\* pandas.DataFrame(records): a list builds a frame; a dict does when one of
\* its entries is list-valued (v names each entry's kind); a str or a number
\* raises ValueError.
DataFrameOk(records) ==
    \/ records.t = "list"
    \/ records.t = "dict" /\ \E i \in 1..Len(records.v) : records.v[i] = "list"

\* pandas.read_csv(io.StringIO(csv_text)): io.StringIO raises TypeError for a
\* non-str, read_csv raises EmptyDataError when the text holds no column.
ReadCsvOk(csv_text) ==
    csv_text.t = "str" /\ \E i \in 1..Len(csv_text.v) : csv_text.v[i] # NL

\* ReaderHandle without the final `elif not dataset_path` rejection.
ReaderHandle_NoReject(message, llm_default) ==
    LET payload == DataOrEmpty(message)
        dataset_path == Get(payload, "dataset_path", VNull)
        csv_text == Get(payload, "csv_text", VNull)
        records == Get(payload, "records", VNull)
        llm_model == Get(payload, "model", llm_default)
        call(frame) == Invoke("run_langchain_reader",
                              [csv_path |-> dataset_path,
                               dataframe |-> frame,
                               llm_model |-> llm_model])
    IN IF Truthy(records)
       THEN IF DataFrameOk(records) THEN call(records) ELSE Raise(PyError("ValueError"))
       ELSE IF Truthy(csv_text)
       THEN IF ReadCsvOk(csv_text) THEN call(csv_text)
            ELSE IF csv_text.t = "str" THEN Raise(PyError("EmptyDataError"))
            ELSE Raise(PyError("TypeError"))
       ELSE call(VNull)

\* ReaderRequestHandler.on_message_send up to `await asyncio.to_thread`.
ReaderHandle(message, llm_default) ==
    LET payload == DataOrEmpty(message)
        dataset_path == Get(payload, "dataset_path", VNull)
        csv_text == Get(payload, "csv_text", VNull)
        records == Get(payload, "records", VNull)
        llm_model == Get(payload, "model", llm_default)
        call(frame) == Invoke("run_langchain_reader",
                              [csv_path |-> dataset_path,
                               dataframe |-> frame,
                               llm_model |-> llm_model])
    IN IF Truthy(records)
       THEN IF DataFrameOk(records) THEN call(records) ELSE Raise(PyError("ValueError"))
       ELSE IF Truthy(csv_text)
       THEN IF ReadCsvOk(csv_text) THEN call(csv_text)
            ELSE IF csv_text.t = "str" THEN Raise(PyError("EmptyDataError"))
            ELSE Raise(PyError("TypeError"))
       ELSE IF ~Truthy(dataset_path)
       THEN Raise(BadRequest("Reader agent expects 'dataset_path', 'csv_text', or 'records'."))
       ELSE call(VNull)

\* AnalystHandle testing `records is None` where the code tests `not records`.
AnalystHandle_NoneOnly(message, llm_default) ==
    LET payload == DataOrEmpty(message)
        records == Get(payload, "records", VNull)
        summary_text == Get(payload, "summary_text", VNull)
        metrics == Get(payload, "metrics", VNull)
        llm_model == Get(payload, "model", llm_default)
    IN IF ~IsNone(records) /\ ~IsList(records)
       THEN Raise(BadRequest("Analyst agent expected 'records' to be a list of dictionaries."))
       ELSE IF IsNone(records) \/ IsNone(summary_text) \/ IsNone(metrics)
       THEN Raise(BadRequest("Analyst agent expects 'records', 'summary_text', and 'metrics'."))
       ELSE Invoke("run_crewai_analysis",
                   [sales_records |-> records,
                    reader_summary |-> summary_text,
                    metrics |-> metrics,
                    llm_model |-> llm_model])

\* AnalystRequestHandler.on_message_send up to `await asyncio.to_thread`.
AnalystHandle(message, llm_default) ==
    LET payload == DataOrEmpty(message)
        records == Get(payload, "records", VNull)
        summary_text == Get(payload, "summary_text", VNull)
        metrics == Get(payload, "metrics", VNull)
        llm_model == Get(payload, "model", llm_default)
    IN IF ~IsNone(records) /\ ~IsList(records)
       THEN Raise(BadRequest("Analyst agent expected 'records' to be a list of dictionaries."))
       ELSE IF ~Truthy(records) \/ IsNone(summary_text) \/ IsNone(metrics)
       THEN Raise(BadRequest("Analyst agent expects 'records', 'summary_text', and 'metrics'."))
       ELSE Invoke("run_crewai_analysis",
                   [sales_records |-> records,
                    reader_summary |-> summary_text,
                    metrics |-> metrics,
                    llm_model |-> llm_model])

\* VisualizerHandle without the `analysis_summary is None` test.
VisualizerHandle_NoTextCheck(message, llm_default) ==
    LET payload == DataOrEmpty(message)
        records == Get(payload, "records", VNull)
        analysis_summary == Get(payload, "analysis_text", VNull)
        output_dir == Get(payload, "artifacts_dir", VStr(<<"artifacts/autogen">>))
        llm_model == Get(payload, "model", llm_default)
    IN IF ~IsNone(records) /\ ~IsList(records)
       THEN Raise(BadRequest("Visualizer agent expected 'records' to be a list of dictionaries."))
       ELSE IF ~Truthy(records)
       THEN Raise(BadRequest("Visualizer agent expects 'records' and 'analysis_text'."))
       ELSE Invoke("run_autogen_visualizer",
                   [sales_records |-> records,
                    analysis_summary |-> analysis_summary,
                    output_dir |-> output_dir,
                    llm_model |-> llm_model])

\* VisualizerRequestHandler.on_message_send up to `await asyncio.to_thread`.
VisualizerHandle(message, llm_default) ==
    LET payload == DataOrEmpty(message)
        records == Get(payload, "records", VNull)
        analysis_summary == Get(payload, "analysis_text", VNull)
        output_dir == Get(payload, "artifacts_dir", VStr(<<"artifacts/autogen">>))
        llm_model == Get(payload, "model", llm_default)
    IN IF ~IsNone(records) /\ ~IsList(records)
       THEN Raise(BadRequest("Visualizer agent expected 'records' to be a list of dictionaries."))
       ELSE IF ~Truthy(records) \/ IsNone(analysis_summary)
       THEN Raise(BadRequest("Visualizer agent expects 'records' and 'analysis_text'."))
       ELSE Invoke("run_autogen_visualizer",
                   [sales_records |-> records,
                    analysis_summary |-> analysis_summary,
                    output_dir |-> output_dir,
                    llm_model |-> llm_model])

\* HandleAs passing self.llm_model to the work function whatever the request
\* carries.
HandleAs_ConfiguredOnly(role, message, llm_model) ==
    LET without == create_text_message_with_data(
                       extract_text_from_message(message),
                       IF get_data_part(message).some
                       THEN Some([k \in DOMAIN get_data_part(message).data \ {"model"} |->
                                     get_data_part(message).data[k]])
                       ELSE None)
    IN CASE role = "reader" -> ReaderHandle(without, llm_model)
         [] role = "analyst" -> AnalystHandle(without, llm_model)
         [] OTHER -> VisualizerHandle(without, llm_model)

\* on_message_send of the role's handler whose self.llm_model is llm_model.
HandleAs(role, message, llm_model) ==
    CASE role = "reader" -> ReaderHandle(message, llm_model)
      [] role = "analyst" -> AnalystHandle(message, llm_model)
      [] OTHER -> VisualizerHandle(message, llm_model)

\* The handler bound to each role's server (create_*_app).
Handle(role, message) == HandleAs(role, message, HandlerModel(role))

\* ------------------------------------------------- the other RPC methods
\* The methods of the RPC surface other than message/send.
OtherMethods ==
    {"tasks/get", "tasks/cancel", "message/stream", "tasks/resubscribe",
     "tasks/pushNotificationConfig/set", "tasks/pushNotificationConfig/get",
     "tasks/pushNotificationConfig/list", "tasks/pushNotificationConfig/delete"}

\* The RequestHandler method the transport calls for a wire method (the
\* methods SimpleRequestHandler overrides).
HandlerFunction(method) ==
    CASE method = "tasks/get" -> "on_get_task"
      [] method = "tasks/cancel" -> "on_cancel_task"
      [] method = "message/stream" -> "on_message_send_stream"
      [] method = "tasks/resubscribe" -> "on_resubscribe_to_task"
      [] method = "tasks/pushNotificationConfig/set" -> "on_set_task_push_notification_config"
      [] method = "tasks/pushNotificationConfig/get" -> "on_get_task_push_notification_config"
      [] method = "tasks/pushNotificationConfig/list" -> "on_list_task_push_notification_config"
      [] OTHER -> "on_delete_task_push_notification_config"

\* f"Method '{method_name}' not supported." as its three pieces.
UnsupportedMessage(method_name) == <<"Method '", method_name, "' not supported.">>

\* _unsupported(method_name)
Unsupported(method_name) ==
    [kind |-> "ServerError", error |-> "InvalidParamsError",
     message |-> UnsupportedMessage(method_name)]

\* SimpleRequestHandler with on_cancel_task raising _unsupported('tasks/get').
SimpleRequestHandler_WrongName(fn) ==
    [raised |-> TRUE, call |-> NoCall,
     err |-> Unsupported(
        CASE fn = "on_get_task" -> "tasks/get"
          [] fn = "on_cancel_task" -> "tasks/get"
          [] fn = "on_message_send_stream" -> "message/stream"
          [] fn = "on_set_task_push_notification_config" -> "tasks/pushNotificationConfig/set"
          [] fn = "on_get_task_push_notification_config" -> "tasks/pushNotificationConfig/get"
          [] fn = "on_resubscribe_to_task" -> "tasks/resubscribe"
          [] fn = "on_list_task_push_notification_config" -> "tasks/pushNotificationConfig/list"
          [] OTHER -> "tasks/pushNotificationConfig/delete")]

\* SimpleRequestHandler: each optional method raises _unsupported with the
\* name written in its body; none touches the role's work function. The three
\* role handlers inherit these methods unchanged.
SimpleRequestHandler(fn) ==
    [raised |-> TRUE, call |-> NoCall,
     err |-> Unsupported(
        CASE fn = "on_get_task" -> "tasks/get"
          [] fn = "on_cancel_task" -> "tasks/cancel"
          [] fn = "on_message_send_stream" -> "message/stream"
          [] fn = "on_set_task_push_notification_config" -> "tasks/pushNotificationConfig/set"
          [] fn = "on_get_task_push_notification_config" -> "tasks/pushNotificationConfig/get"
          [] fn = "on_resubscribe_to_task" -> "tasks/resubscribe"
          [] fn = "on_list_task_push_notification_config" -> "tasks/pushNotificationConfig/list"
          [] OTHER -> "tasks/pushNotificationConfig/delete")]

\* ------------------------------------------------------- request payloads
\* A key that the payload does not hold.
Absent == [t |-> "absent", v |-> <<>>]
MkPayload(full) == [k \in {x \in DOMAIN full : full[x].t # "absent"} |-> full[k]]

\* `records` values a caller may put on the wire: JSON null, lists of rows
\* (empty and not, with all columns, without Channel, with a sparse record),
\* and the wrong shapes (a str, numbers, dicts).
RecordsValues ==
    RowLists \cup {VList(<<"s1">>), VList(<<"r1", "p1">>)}
      \cup {VNull, VStr(<<"x">>), VNum("0"), VNum("7"),
                   VDict(<<"scalar">>), VDict(<<"list">>)}
\* `model` values a caller may put on the wire: an identifier, and JSON null.
ModelValues == {VStr(<<"custom-model">>)}
NullableModelValues == ModelValues \cup {VNull}

ReaderPayloads ==
    { MkPayload([dataset_path |-> a, csv_text |-> b, records |-> c, model |-> d]) :
        a \in {Absent, VNull, VStr(<<>>), VStr(<<"/data/sales.csv">>)},
        b \in {Absent, VStr(<<>>), VStr(<<"h", NL, "1">>), VStr(<<NL>>), VNum("7")},
        c \in {Absent} \cup RecordsValues,
        d \in {Absent} \cup ModelValues }

AnalystPayloads ==
    { MkPayload([records |-> a, summary_text |-> b, metrics |-> c, model |-> d]) :
        a \in {Absent} \cup RecordsValues,
        b \in {Absent, VNull, VStr(<<>>), VStr(<<"s">>)},
        c \in {Absent, VNull, VDict(<<>>), VDict(<<"m">>)},
        d \in {Absent} \cup NullableModelValues }

VisualizerPayloads ==
    { MkPayload([records |-> a, analysis_text |-> b, artifacts_dir |-> c, model |-> d]) :
        a \in {Absent} \cup RecordsValues,
        b \in {Absent, VNull, VStr(<<>>), VStr(<<"a">>)},
        c \in {Absent, VStr(<<"out">>)},
        d \in {Absent} \cup ModelValues }

PayloadsFor(role) ==
    CASE role = "reader" -> ReaderPayloads
      [] role = "analyst" -> AnalystPayloads
      [] OTHER -> VisualizerPayloads

\* The envelopes a client may send to a role: with a structured-data part or
\* with the text part alone.
RequestsFor(role) ==
    {create_text_message_with_data(<<"q">>, Some(p)) : p \in PayloadsFor(role)}
      \cup {create_text_message_with_data(<<"q">>, None)}

\* ------------------------------------------------------------------ state
VARIABLES
    hPc,        \* the served request: idle, received, working, replied, failed
    hRole,      \* the role whose handler serves it
    hMsg,       \* params.message
    hCall,      \* the work function call handed to asyncio.to_thread
    hErr,       \* the exception on_message_send raised
    hReply,     \* the Message on_message_send returned
    hArtifacts, \* chart files the request's work wrote
    hOther,     \* the last call of a method other than message/send, its outcome
    hHost       \* the files the agent's host has while the request is served

hvars == <<hPc, hRole, hMsg, hCall, hErr, hReply, hArtifacts, hOther, hHost>>

NoOther == [role |-> "", method |-> "", fn |-> "", raised |-> FALSE,
            message |-> <<>>, error |-> "", call |-> NoCall]

\* One agent server with several requests in flight.
VARIABLES
    sReq,    \* per request slot: its position, role, message, call and files
    sLoop,   \* the slot whose coroutine holds the event loop, 0 when it is free
    sFiles,  \* per chart file under the artifacts directories: its last writer
    sModel   \* per role: the handler's self.llm_model

svars == <<sReq, sLoop, sFiles, sModel>>

\* The all-agents launcher (scripts/start_all_agents.py) and its children.
VARIABLES
    lPc,        \* the launcher: launch, install_int, install_term, wait,
                \* terminate, reap, exited, killed, aborted
    lIdx,       \* the index of the loop the launcher is in
    PROCESSES,  \* the agents whose child process was started, in order
    lChild,     \* per agent: none, running, terminating, killed, zombie, reaped
    lHandlers,  \* the signals whose handler is shutdown
    lDelivered  \* the signals delivered to the launcher, with the children
                \* started by then

lvars == <<lPc, lIdx, PROCESSES, lChild, lHandlers, lDelivered>>

\* One envelope on its way from a caller to a handler.
VARIABLES
    ePc,       \* new, built, wire, parsed
    eText,     \* the caller's text
    eData,     \* the caller's structured mapping
    eMessage,  \* the Message create_text_message_with_data built
    eWire,     \* the JSON text of its parts on the wire
    eParsed    \* the Message the receiver parsed from the wire

evars == <<ePc, eText, eData, eMessage, eWire, eParsed>>

\* One checkpointed thread of the travel-planner graph.
VARIABLES
    tPc,        \* idle, or the node about to run
    tTurn,      \* the invocations started on the thread
    tMessages,  \* the `messages` channel of the thread's state
    tPath       \* the nodes the current invocation has run

tvars == <<tPc, tTurn, tMessages, tPath>>

\* ------------------------------------------------------------- endpoints
\* A URL is the sequence of its pieces as the caller wrote them: a scheme
\* word, ":", "//", an authority, a path, "?", a query, "#", a fragment.
Url(scheme, netloc, path) ==
    (IF scheme # "" THEN <<scheme, ":">> ELSE <<>>)
      \o (IF netloc # "" THEN <<"//", netloc>> ELSE <<>>)
      \o (IF path # "" THEN <<path>> ELSE <<>>)
NoUrl == Url("", "", "")

\* The paths that start with "/" among the URLs of the model.
AbsolutePaths == {"/a2a"}

\* The schemes of urllib.parse.uses_netloc among the URLs of the model.
UsesNetloc == {"http", "https"}

\* urllib.parse.urlsplit(url): what precedes the first ":" is the scheme, the
\* authority follows "//", then come path, "?" query and "#" fragment.
urlsplit(url) ==
    LET hasScheme == Len(url) >= 2 /\ url[2] = ":"
        r1 == IF hasScheme THEN SubSeq(url, 3, Len(url)) ELSE url
        hasNetloc == Len(r1) >= 2 /\ r1[1] = "//"
                       /\ r1[2] \notin AbsolutePaths \cup {"?", "#"}
        r2 == IF r1 # <<>> /\ r1[1] = "//"
              THEN SubSeq(r1, IF hasNetloc THEN 3 ELSE 2, Len(r1)) ELSE r1
        hasPath == r2 # <<>> /\ r2[1] \notin {"?", "#"}
        r3 == IF hasPath THEN Tail(r2) ELSE r2
        hasQuery == Len(r3) >= 2 /\ r3[1] = "?"
        r4 == IF hasQuery THEN SubSeq(r3, 3, Len(r3)) ELSE r3
        hasFragment == Len(r4) >= 2 /\ r4[1] = "#"
    IN [scheme |-> IF hasScheme THEN url[1] ELSE "",
        netloc |-> IF hasNetloc THEN r1[2] ELSE "",
        path |-> IF hasPath THEN r2[1] ELSE "",
        query |-> IF hasQuery THEN r3[2] ELSE "",
        fragment |-> IF hasFragment THEN r4[2] ELSE ""]

\* urllib.parse.urlunsplit((scheme, netloc, "", "", "")): "//" and the
\* authority when there is one or the scheme is one that uses one, after the
\* scheme and ":" when there is a scheme.
urlunsplit(scheme, netloc) ==
    LET url == IF netloc # "" \/ scheme \in UsesNetloc
               THEN <<"//">> \o (IF netloc # "" THEN <<netloc>> ELSE <<>>)
               ELSE <<>>
    IN IF scheme # "" THEN <<scheme, ":">> \o url ELSE url

\* orchestrator.py:67-69: urlunsplit((scheme, netloc, "", "", "")) or url
NormalizeEndpoint(url) ==
    LET parsed == urlsplit(url)
        base == urlunsplit(parsed.scheme, parsed.netloc)
    IN IF base = <<>> THEN url ELSE base

DefaultEndpoints ==
    [reader |-> Url("http", "localhost:8001", ""),
     analyst |-> Url("http", "localhost:8002", ""),
     visualizer |-> Url("http", "localhost:8003", "")]

\* agent_endpoints or {defaults}: None and {} both select the defaults.
Endpoints(agent_endpoints) ==
    IF agent_endpoints.some /\ DOMAIN agent_endpoints.data # {}
    THEN agent_endpoints.data ELSE DefaultEndpoints

NormalizedEndpoints(agent_endpoints) ==
    LET endpoints == Endpoints(agent_endpoints)
    IN [name \in DOMAIN endpoints |-> NormalizeEndpoint(endpoints[name])]

\* default_models with the first override given applied to every role.
DefaultModels_AllRoles(model_overrides) ==
    LET builtin == [reader |-> VStr(<<"gpt-4o-mini">>),
                    analyst |-> VStr(<<"gpt-4o-mini">>),
                    visualizer |-> VStr(<<"gpt-4o">>)]
        over == IF model_overrides.some THEN model_overrides.data ELSE EmptyPayload
    IN [k \in DOMAIN builtin \cup DOMAIN over |->
          IF DOMAIN over # {} THEN over[CHOOSE o \in DOMAIN over : TRUE] ELSE builtin[k]]

\* default_models, after default_models.update(model_overrides)
DefaultModels(model_overrides) ==
    LET builtin == [reader |-> VStr(<<"gpt-4o-mini">>),
                    analyst |-> VStr(<<"gpt-4o-mini">>),
                    visualizer |-> VStr(<<"gpt-4o">>)]
        over == IF model_overrides.some THEN model_overrides.data ELSE EmptyPayload
    IN [k \in DOMAIN builtin \cup DOMAIN over |->
          IF k \in DOMAIN over THEN over[k] ELSE builtin[k]]

\* The role whose server start_all_agents binds to an address, "" if none.
Deployed(url) ==
    CASE urlsplit(url).netloc = "localhost:8001" -> "reader"
      [] urlsplit(url).netloc = "localhost:8002" -> "analyst"
      [] urlsplit(url).netloc = "localhost:8003" -> "visualizer"
      [] OTHER -> ""

\* httpx accepts http and https URLs that name a host.
Connectable(url) ==
    urlsplit(url).scheme \in {"http", "https"} /\ urlsplit(url).netloc # ""

\* ------------------------------------------------------ the run's inputs
\* agent_endpoints a caller may pass.
EndpointChoices ==
    {None,
     Some(EmptyPayload),
     Some([reader |-> Url("http", "localhost:8001", "/a2a"),
           analyst |-> Url("http", "localhost:8002", "/a2a") \o <<"?", "v=1">>,
           visualizer |-> Url("http", "localhost:8003", "/a2a") \o <<"#", "rpc">>]),
     Some([reader |-> Url("http", "localhost:8001", ""),
           analyst |-> Url("http", "localhost:8002", ""),
           visualizer |-> Url("http", "localhost:8002", "/a2a")]),
     Some([reader |-> Url("http", "localhost:8001", ""),
           analyst |-> Url("http", "localhost:8002", "")]),
     Some([reader |-> Url("", "", "localhost/a2a"),
           analyst |-> Url("localhost", "", "8002/a2a"),
           visualizer |-> Url("", "localhost:8003", "/a2a")])}

\* model_overrides a caller may pass (the last one is the UI's).
OverrideChoices ==
    {None,
     Some([analyst |-> VStr(<<"custom-model">>)]),
     Some([langchain |-> VStr(<<"ui-reader">>),
           crewai |-> VStr(<<"ui-analyst">>),
           autogen |-> VStr(<<"ui-visualizer">>)])}

DatasetPath == VStr(<<"/data/sales.csv">>)
ArtifactsDir == VStr(<<"artifacts/autogen">>)

\* dataset_df.to_csv(index=False): the header line and one line per row.
RECURSIVE CsvLines(_)
CsvLines(rows) ==
    IF rows = <<>> THEN <<>> ELSE <<Head(rows), NL>> \o CsvLines(Tail(rows))
DatasetCsv(n) == VStr(<<"h", NL>> \o CsvLines(Rows(n)))

\* pandas.read_csv of such a text: the rows after the header line.
RECURSIVE CsvRowsFrom(_, _)
CsvRowsFrom(text, i) ==
    IF i > Len(text) THEN <<>>
    ELSE IF text[i] = NL THEN CsvRowsFrom(text, i + 1)
         ELSE <<text[i]>> \o CsvRowsFrom(text, i + 1)
CsvRows(csv_text) == CsvRowsFrom(csv_text.v, 2)

\* ------------------------------------------------------ stage requests
Pipeline == <<"reader", "analyst", "visualizer">>

\* orchestrator.py:88-95
ReaderRequest(models, rows) ==
    create_text_message_with_data(
        <<"Ingest the provided sales dataset and produce a structured summary.">>,
        Some([dataset_path |-> DatasetPath,
              csv_text |-> DatasetCsv(rows),
              model |-> models["reader"]]))

\* AnalystRequest with reader_payload.get("records") and .get("metrics"), the
\* defaults left out.
AnalystRequest_NoDefaults(models, reader_message) ==
    LET reader_text == extract_text_from_message(reader_message)
        reader_payload == DataOrEmpty(reader_message)
    IN create_text_message_with_data(
        <<"Convert the reader summary into a decision-ready analysis.">>,
        Some([records |-> Get(reader_payload, "records", VNull),
              summary_text |-> VStr(reader_text),
              metrics |-> Get(reader_payload, "metrics", VNull),
              model |-> models["analyst"]]))

\* orchestrator.py:102-113
AnalystRequest(models, reader_message) ==
    LET reader_text == extract_text_from_message(reader_message)
        reader_payload == DataOrEmpty(reader_message)
    IN create_text_message_with_data(
        <<"Convert the reader summary into a decision-ready analysis.">>,
        Some([records |-> Get(reader_payload, "records", VList(<<>>)),
              summary_text |-> VStr(reader_text),
              metrics |-> Get(reader_payload, "metrics", VDict(<<>>)),
              model |-> models["analyst"]]))

\* VisualRequest taking `records` from the previous stage's (the Analyst's)
\* payload.
VisualRequest_FromAnalyst(models, reader_message, analyst_message) ==
    LET analyst_payload == DataOrEmpty(analyst_message)
        analyst_text == extract_text_from_message(analyst_message)
    IN create_text_message_with_data(
        <<"Generate charts and advanced analytics for the executive summary.">>,
        Some([records |-> Get(analyst_payload, "records", VList(<<>>)),
              analysis_text |-> VStr(analyst_text),
              artifacts_dir |-> ArtifactsDir,
              model |-> models["visualizer"]]))

\* orchestrator.py:119-130
VisualRequest(models, reader_message, analyst_message) ==
    LET reader_payload == DataOrEmpty(reader_message)
        analyst_text == extract_text_from_message(analyst_message)
    IN create_text_message_with_data(
        <<"Generate charts and advanced analytics for the executive summary.">>,
        Some([records |-> Get(reader_payload, "records", VList(<<>>)),
              analysis_text |-> VStr(analyst_text),
              artifacts_dir |-> ArtifactsDir,
              model |-> models["visualizer"]]))

\* The speaker label the transcript gives a stage's response.
Speaker(stage) ==
    CASE stage = "reader" -> "LangChain Reader"
      [] stage = "analyst" -> "CrewAI Analyst"
      [] OTHER -> "AutoGen Visualizer"

\* ------------------------------------------------------------ data frames
\* The columns of a record: r1..r4 are rows of a dataset that has a Channel
\* column, s1 is a row with the six columns Region, Product, Sales,
\* Marketing_Spend, Qualified_Leads, New_Customers, p1 is a sparse record.
FullColumns ==
    <<"Region", "Product", "Channel", "Sales", "Marketing_Spend",
      "Qualified_Leads", "New_Customers">>
SixColumns ==
    <<"Region", "Product", "Sales", "Marketing_Spend", "Qualified_Leads", "New_Customers">>
RowColumns(row) ==
    CASE row = "s1" -> SixColumns
      [] row = "p1" -> <<"Region", "Sales">>
      [] OTHER -> FullColumns

\* The row's Sales cell.
RowSales(row) ==
    CASE row = "r1" -> 1 [] row = "r2" -> 2 [] row = "r3" -> 3 [] row = "r4" -> 4
      [] row = "s1" -> 5 [] OTHER -> 6

Has(seq, x) == \E i \in 1..Len(seq) : seq[i] = x

\* The union of the rows' field names in first-seen order (pandas.DataFrame
\* of a list of dicts).
MergeColumns(seen, cols) == seen \o SelectSeq(cols, LAMBDA c : ~Has(seen, c))
RECURSIVE ColumnsOfRows(_, _)
ColumnsOfRows(rows, seen) ==
    IF rows = <<>> THEN seen
    ELSE ColumnsOfRows(Tail(rows), MergeColumns(seen, RowColumns(Head(rows))))

\* The frame the handler or the reader builds from a value: from a list of
\* records, from a dict (its keys are not the dataset's columns), or from CSV
\* text, whose header line ("h": all seven columns, "g": the six) names the
\* columns.
Frame(value) ==
    CASE value.t = "list" -> [columns |-> ColumnsOfRows(value.v, <<>>), rows |-> value.v]
      [] value.t = "str" ->
           [columns |-> IF value.v[1] = "g" THEN SixColumns ELSE FullColumns,
            rows |-> CsvRows(value)]
      [] OTHER -> [columns |-> <<"k">>, rows |-> <<>>]

\* str() of the small numbers the model's sums take.
NumStr(n) ==
    <<"0", "1", "2", "3", "4", "5", "6", "7", "8", "9", "10", "11", "12", "13", "14",
      "15", "16", "17", "18", "19", "20", "21", "22", "23", "24">>[n + 1]

\* df["Sales"].sum(): cells a record lacks are NaN and are skipped.
RECURSIVE SumSales(_)
SumSales(rows) ==
    IF rows = <<>> THEN 0
    ELSE (IF Has(RowColumns(Head(rows)), "Sales") THEN RowSales(Head(rows)) ELSE 0)
           + SumSales(Tail(rows))

\* The columns _compute_metrics reads, in the order it reads them.
MetricColumns ==
    <<"Sales", "Marketing_Spend", "Qualified_Leads", "New_Customers",
      "Region", "Product", "Channel">>

KeyError(key) == [kind |-> "KeyError", error |-> "", message |-> key]
Failed(e) == [raised |-> TRUE, err |-> e, metrics |-> VNull]

\* The key under which _compute_metrics stores total_sales.
TotalSalesKey == "sales "

\* _compute_metrics(df): KeyError for the first column the frame lacks, else
\* the metrics dict, written as its keys in order with the totals' values
\* between braces.
ComputeMetrics(df) ==
    LET missing == SelectSeq(MetricColumns, LAMBDA c : ~Has(df.columns, c))
        n == NumStr(Len(df.rows))
    IN IF missing # <<>> THEN Failed(KeyError(missing[1]))
       ELSE [raised |-> FALSE, err |-> NoError,
             metrics |-> VDict(<<"totals", "{",
                                 TotalSalesKey, NumStr(SumSales(df.rows)),
                                 "marketing_spend", n,
                                 "qualified_leads", n,
                                 "new_customers", n, "}",
                                 "efficiency", "regions_ranked", "products_ranked",
                                 "channels_ranked">>)]

\* ------------------------------------------------------ remote agents
\* The files of the agent's host: the dataset is at dataset_path, or is not.
Hosts == {{}, {DatasetPath}}
\* What is at dataset_path when the host has it.
HostFile == DatasetCsv(1)

Outcome(message, files) == [raised |-> FALSE, err |-> NoError, message |-> message, files |-> files]
WorkError(e, files) == [raised |-> TRUE, err |-> e, message |-> <<>>, files |-> files]

\* run_langchain_reader up to the model call: the frame given or loaded, the
\* metrics, then CSVLoader(str(csv_path)).load() whenever csv_path is given.
ReaderData(args, host) ==
    LET csv_path == args.csv_path
        given == args.dataframe
    IN IF IsNone(given) /\ IsNone(csv_path) THEN Failed(PyError("ValueError"))
       ELSE IF IsNone(given) /\ csv_path \notin host THEN Failed(PyError("FileNotFoundError"))
       ELSE LET df == Frame(IF IsNone(given) THEN HostFile ELSE given)
                m == ComputeMetrics(df)
            IN IF m.raised THEN m
               ELSE IF ~IsNone(csv_path) /\ csv_path \notin host
               THEN Failed(PyError("RuntimeError"))
               ELSE [raised |-> FALSE, err |-> NoError,
                     metrics |-> VDict(<<>>),
                     data |-> [schema |-> VList(df.columns),
                               records |-> VList(df.rows),
                               metrics |-> m.metrics]]

\* f"{metric.lower()}_by_{group_by.lower()}.json" for the columns charted.
ChartFile(metric, group_by) ==
    CASE metric = "Sales" /\ group_by = "Product" -> "sales_by_product.json"
      [] metric = "Sales" /\ group_by = "Region" -> "sales_by_region.json"
      [] metric = "Revenue" /\ group_by = "Product" -> "revenue_by_product.json"
      [] OTHER -> "revenue_by_region.json"

\* artifacts_dir / file: the directory the request names and the file.
ChartPath(output_dir, metric, group_by) == <<output_dir.v, ChartFile(metric, group_by)>>

\* The directories a Visualizer request may name, and the chart files of the
\* two charts the system prompt asks for under them.
ArtifactDirs == {VStr(<<"artifacts/autogen">>), VStr(<<"out">>)}
ChartPaths ==
    {ChartPath(d, "Sales", g) : d \in ArtifactDirs, g \in {"Product", "Region"}}

\* The calls of render_sales_chart the model makes in one agent run: the two
\* it is told to make, or one with a metric the data does not have.
ToolCalls ==
    {[metric |-> "Sales", group_by |-> "Product"],
     [metric |-> "Sales", group_by |-> "Region"],
     [metric |-> "Revenue", group_by |-> "Product"]}
AgentRuns == UNION {[1..n -> ToolCalls] : n \in 0..MaxToolCalls}

\* render_sales_chart: ValueError for a column the frame lacks, else the
\* chart is written.
Renders(df, c) == Has(df.columns, c.metric) /\ Has(df.columns, c.group_by)

\* The payload parsed from a tool result: the chart's dict, named here by its
\* figure_path's file, or {"raw": text} for an error or unparseable text.
ToolPayload(df, c) == IF Renders(df, c) THEN ChartFile(c.metric, c.group_by) ELSE "raw"

\* The loop over tool_payloads that drops a figure_path already seen.
RECURSIVE UniquePayloads(_, _)
UniquePayloads(payloads, seen) ==
    IF payloads = <<>> THEN <<>>
    ELSE LET head == Head(payloads)
         IN IF head # "raw" /\ head \in seen
            THEN UniquePayloads(Tail(payloads), seen)
            ELSE <<head>> \o UniquePayloads(Tail(payloads),
                                            IF head = "raw" THEN seen ELSE seen \cup {head})

\* `if not tool_payloads`: whether the default pair of charts is generated.
NeedsDefaults(tool_payloads) == tool_payloads = <<>>

DefaultCalls ==
    <<[metric |-> "Sales", group_by |-> "Product"],
      [metric |-> "Sales", group_by |-> "Region"]>>
DefaultsNote == <<"(Generated default charts for Product and Region views.)">>

\* run_autogen_visualizer after the agent run: the tool results are parsed,
\* the defaults are rendered when there is no payload, duplicates of a chart
\* are dropped, and the message is built. raw_messages holds the run's
\* messages: the task and each tool result.
VisualizerRun(args, run, text) ==
    LET df == Frame(args.sales_records)
        tool_payloads == [i \in 1..Len(run) |-> ToolPayload(df, run[i])]
        written == {ChartPath(args.output_dir, run[i].metric, run[i].group_by) :
                      i \in {j \in 1..Len(run) : Renders(df, run[j])}}
        data(outputs) == [tool_outputs |-> VList(UniquePayloads(outputs, {})),
                          artifacts_directory |-> args.output_dir,
                          raw_messages |-> VList(<<"task">> \o tool_payloads)]
    IN IF ~NeedsDefaults(tool_payloads)
       THEN Outcome(create_agent_message(text, Some(data(tool_payloads))), written)
       ELSE IF ~Renders(df, DefaultCalls[1])
       THEN WorkError(PyError("ValueError"), written)
       ELSE IF ~Has(df.columns, "Region")
       THEN WorkError(KeyError("Region"),
                      written \cup {ChartPath(args.output_dir, "Sales", "Product")})
       ELSE Outcome(
              create_agent_message(
                  IF text = <<>> THEN <<"Generated default charts for Product and Region views.">>
                  ELSE text \o <<NL, NL>> \o DefaultsNote,
                  Some(data([i \in 1..2 |-> ToolPayload(df, DefaultCalls[i])]))),
              written \cup {ChartPath(args.output_dir, "Sales", "Product"),
                            ChartPath(args.output_dir, "Sales", "Region")})

\* How a role's work function ends when the model, asked, makes the tool
\* calls `run` and says something or nothing: result['message'], or the
\* exception of the function's own code.
WorkOutcome(call, host, run, said) ==
    CASE call.fn = "run_langchain_reader" ->
           LET r == ReaderData(call.args, host)
           IN IF r.raised THEN WorkError(r.err, {})
              ELSE Outcome(create_agent_message(IF said THEN <<"summary">> ELSE <<>>,
                                                Some(r.data)), {})
      [] call.fn = "run_crewai_analysis" ->
           Outcome(create_agent_message(<<"analysis">>,
                       Some([analytics_json |-> VDict(<<"kpis">>),
                             task_outputs |-> VList(<<"t1">>)])), {})
      [] call.fn = "run_autogen_visualizer" ->
           VisualizerRun(call.args, run, IF said THEN <<"insights">> ELSE <<>>)
      [] OTHER -> WorkError(NoError, {})

\* The ways a role's work function ends, apart from a failure of the model
\* call.
WorkOutcomes(call, host) ==
    {WorkOutcome(call, host, run, said) : run \in AgentRuns, said \in BOOLEAN}

\* What a role's work function returns as result['message'].
WorkReplies(call, host) ==
    {o.message : o \in {x \in WorkOutcomes(call, host) : ~x.raised}}

\* One event of client.send_message's response stream: a Message, or a
\* (Task, update) pair of which only the task's history is read.
MessageEvent(m) == [type |-> "message", message |-> m, history |-> <<>>, state |-> ""]
\* A Task in the given status.state with the given history.
TaskUpdate(h, state) == [type |-> "task", message |-> <<>>, history |-> h, state |-> state]
TaskEvent(h) == TaskUpdate(h, "completed")

\* Responses of an agent that is not one of this repository's handlers.
ForeignMessage == create_agent_message(<<"foreign">>, None)
ForeignData ==
    create_agent_message(<<"first">>, Some([records |-> VList(Rows(1))]))
      \o <<TextPart(<<"second">>)>>
ForeignEvents ==
    {MessageEvent(ForeignMessage), MessageEvent(ForeignData),
     TaskEvent(<<>>), TaskEvent(<<ForeignMessage, ForeignData>>),
     TaskUpdate(<<ForeignMessage>>, "working")}

ForeignStreams ==
    UNION {[1..n -> ForeignEvents] : n \in 0..MaxEvents}

\* _send_message's `async for` over the response stream: the last Message,
\* or the last history entry of a Task with a history, seen so far.
NoMsg == [got |-> FALSE, msg |-> <<>>]
Got(m) == [got |-> TRUE, msg |-> m]

\* ConsumeStream taking a Task without history for a response (an empty
\* Message).
RECURSIVE ConsumeStream_EmptyTask(_, _, _)
ConsumeStream_EmptyTask(stream, i, final_message) ==
    IF i > Len(stream) THEN final_message
    ELSE LET response == stream[i]
         IN IF response.type = "message"
            THEN ConsumeStream_EmptyTask(stream, i + 1, Got(response.message))
            ELSE IF Len(response.history) > 0
            THEN ConsumeStream_EmptyTask(stream, i + 1,
                                         Got(response.history[Len(response.history)]))
            ELSE ConsumeStream_EmptyTask(stream, i + 1, Got(<<>>))

RECURSIVE ConsumeStream(_, _, _)
ConsumeStream(stream, i, final_message) ==
    IF i > Len(stream) THEN final_message
    ELSE LET response == stream[i]
         IN IF response.type = "message"
            THEN ConsumeStream(stream, i + 1, Got(response.message))
            ELSE IF Len(response.history) > 0
            THEN ConsumeStream(stream, i + 1, Got(response.history[Len(response.history)]))
            ELSE ConsumeStream(stream, i + 1, final_message)

\* An exception of the client side: its class, the endpoint its message
\* names (NoUrl when it names none) and the remote error it wraps.
Exc(cls, endpoint, detail) == [cls |-> cls, endpoint |-> endpoint, detail |-> detail]
NoExc == Exc("", NoUrl, NoError)

IdleChannel == [st |-> "idle", endpoint |-> NoUrl, request |-> <<>>,
                stream |-> <<>>, error |-> NoExc]

NoResult == [some |-> FALSE, value |-> <<>>]

\* ------------------------------------------------------------------ state
VARIABLES
    cfg,         \* the arguments of orchestrate_sales_insights and the dataset
    oPc,         \* position in orchestrate_sales_insights / _run / _send_message
    oStage,      \* the stage _run is at
    transcript,  \* _run's transcript list
    oReq,        \* reader_request, analyst_request, visual_request once built
    oResp,       \* reader_message, analyst_message, visual_message once returned
    oCard,       \* reader_card, analyst_card, visual_card
    finalMessage, \* _send_message's final_message
    pending,     \* the exception in flight through _send_message's finally
    openHttp,    \* stages whose httpx.AsyncClient is created and not closed
    openClients, \* stages whose A2A client is connected and not closed
    net,         \* per stage: the request on the wire, then its response
    sentLog,     \* every envelope put on the wire, in order
    worked,      \* the roles whose work function ran for this run, in order
    cbLog,       \* the progress_callback invocations, in order
    oErr,        \* the exception orchestrate_sales_insights raised
    oResult      \* the dict orchestrate_sales_insights returned

ovars == <<cfg, oPc, oStage, transcript, oReq, oResp, oCard, finalMessage, pending,
           openHttp, openClients, net, sentLog, worked, cbLog, oErr, oResult>>
vars == <<hvars, ovars, svars, lvars, evars, tvars>>

normalized_endpoints == NormalizedEndpoints(cfg.endpoints)
default_models == DefaultModels(cfg.overrides)

Configs ==
    [endpoints : EndpointChoices, overrides : OverrideChoices,
     callback : BOOLEAN, path_exists : BOOLEAN, rows : 0..MaxRows]

OInitWith(c) ==
    /\ cfg = c
    /\ oPc = "start"
    /\ oStage = "reader"
    /\ transcript = <<>>
    /\ oReq = [r \in Roles |-> NoMsg]
    /\ oResp = [r \in Roles |-> NoMsg]
    /\ oCard = [r \in Roles |-> ""]
    /\ finalMessage = NoMsg
    /\ pending = NoExc
    /\ openHttp = {}
    /\ openClients = {}
    /\ net = [r \in Roles |-> IdleChannel]
    /\ sentLog = <<>>
    /\ worked = <<>>
    /\ cbLog = <<>>
    /\ oErr = NoExc
    /\ oResult = NoResult

OInit == \E c \in Configs : OInitWith(c)

\* orchestrate_sales_insights raises.
Fail(e) ==
    /\ oPc' = "failed"
    /\ oErr' = e

\* orchestrator.py:55-83: the dataset is located and loaded.
OStart ==
    /\ oPc = "start"
    /\ IF cfg.path_exists
       THEN oPc' = "build" /\ oErr' = oErr
       ELSE Fail(Exc("FileNotFoundError", NoUrl, NoError))
    /\ UNCHANGED <<hvars, svars, lvars, evars, tvars>>
    /\ UNCHANGED <<cfg, oStage, transcript, oReq, oResp, oCard, finalMessage, pending,
                   openHttp, openClients, net, sentLog, worked, cbLog, oResult>>

\* The request _run builds for a stage from what it holds.
RequestFor(stage) ==
    CASE stage = "reader" -> ReaderRequest(default_models, cfg.rows)
      [] stage = "analyst" -> AnalystRequest(default_models, oResp["reader"].msg)
      [] OTHER -> VisualRequest(default_models, oResp["reader"].msg, oResp["analyst"].msg)

\* The transcript entries _run appends when it has built a stage's request.
RequestEntries(stage, request) ==
    IF stage = "reader" THEN <<[from |-> "coordinator", message |-> request]>> ELSE <<>>

\* _run builds the stage's request, looks its endpoint up and enters
\* _send_message, which creates the httpx.AsyncClient (orchestrator.py:22).
OBuild ==
    /\ oPc = "build"
    /\ LET request == RequestFor(oStage)
       IN /\ oReq' = [oReq EXCEPT ![oStage] = Got(request)]
          /\ transcript' = transcript \o RequestEntries(oStage, request)
    /\ IF oStage \in DOMAIN normalized_endpoints
       THEN /\ openHttp' = openHttp \cup {oStage}
            /\ oPc' = "connect"
            /\ oErr' = oErr
       ELSE /\ Fail(Exc("KeyError", NoUrl, NoError))
            /\ openHttp' = openHttp
    /\ UNCHANGED <<hvars, svars, lvars, evars, tvars>>
    /\ UNCHANGED <<cfg, oStage, oResp, oCard, finalMessage, pending,
                   openClients, net, sentLog, worked, cbLog, oResult>>

\* `await ClientFactory.connect(endpoint, ...)` (orchestrator.py:26), outside
\* the try: it returns a client, or raises when the card cannot be fetched.
OConnect(ok) ==
    /\ oPc = "connect"
    /\ ok => Connectable(normalized_endpoints[oStage])
    /\ IF ok
       THEN /\ openClients' = openClients \cup {oStage}
            /\ oPc' = "send"
            /\ oErr' = oErr
       ELSE /\ Fail(Exc("ConnectError", normalized_endpoints[oStage], NoError))
            /\ openClients' = openClients
    /\ UNCHANGED <<hvars, svars, lvars, evars, tvars>>
    /\ UNCHANGED <<cfg, oStage, transcript, oReq, oResp, oCard, finalMessage, pending,
                   openHttp, net, sentLog, worked, cbLog, oResult>>

\* client.send_message(message) puts the envelope on the wire.
OSend ==
    /\ oPc = "send"
    /\ net' = [net EXCEPT ![oStage] =
                 [st |-> "request", endpoint |-> normalized_endpoints[oStage],
                  request |-> oReq[oStage].msg, stream |-> <<>>, error |-> NoExc]]
    /\ sentLog' = Append(sentLog, [stage |-> oStage,
                                   endpoint |-> normalized_endpoints[oStage],
                                   request |-> oReq[oStage].msg])
    /\ finalMessage' = NoMsg
    /\ oPc' = "wait"
    /\ UNCHANGED <<hvars, svars, lvars, evars, tvars>>
    /\ UNCHANGED <<cfg, oStage, transcript, oReq, oResp, oCard, pending,
                   openHttp, openClients, worked, cbLog, oErr, oResult>>

Respond(stage, stream, error) ==
    net' = [net EXCEPT ![stage] = [@ EXCEPT !.st = "response",
                                             !.stream = stream, !.error = error]]

\* The server bound to the endpoint runs its role's handler on the request:
\* a validation error, or the work function's reply or failure.
RemoteServe(stage) ==
    /\ net[stage].st = "request"
    /\ Deployed(net[stage].endpoint) # ""
    /\ LET role == Deployed(net[stage].endpoint)
           r == Handle(role, net[stage].request)
       IN IF r.raised
          THEN /\ Respond(stage, <<>>, Exc("A2AClientJSONRPCError", NoUrl, r.err))
               /\ worked' = worked
          ELSE /\ worked' = Append(worked, role)
               /\ \/ \E host \in Hosts : \E o \in WorkOutcomes(r.call, host) :
                       IF o.raised
                       THEN Respond(stage, <<>>, Exc("A2AClientJSONRPCError", NoUrl, o.err))
                       ELSE Respond(stage, <<MessageEvent(o.message)>>, NoExc)
                  \/ Respond(stage, <<>>,
                             Exc("A2AClientJSONRPCError", NoUrl, PyError("UpstreamError")))
    /\ UNCHANGED <<hvars, svars, lvars, evars, tvars>>
    /\ UNCHANGED <<cfg, oPc, oStage, transcript, oReq, oResp, oCard, finalMessage,
                   pending, openHttp, openClients, sentLog, cbLog, oErr, oResult>>

\* An agent of another version answers at the endpoint: any stream of
\* Messages and Tasks, the empty stream included.
RemoteForeign(stage, stream) ==
    /\ net[stage].st = "request"
    /\ Respond(stage, stream, NoExc)
    /\ UNCHANGED <<hvars, svars, lvars, evars, tvars>>
    /\ UNCHANGED <<cfg, oPc, oStage, transcript, oReq, oResp, oCard, finalMessage,
                   pending, openHttp, openClients, sentLog, worked, cbLog, oErr, oResult>>

\* The request times out or the connection drops (httpx timeouts, line 23).
RemoteTimeout(stage) ==
    /\ net[stage].st = "request"
    /\ Respond(stage, <<>>, Exc("A2AClientTimeoutError", NoUrl, NoError))
    /\ UNCHANGED <<hvars, svars, lvars, evars, tvars>>
    /\ UNCHANGED <<cfg, oPc, oStage, transcript, oReq, oResp, oCard, finalMessage,
                   pending, openHttp, openClients, sentLog, worked, cbLog, oErr, oResult>>

\* orchestrator.py:28-37: the response stream is consumed inside the try.
OReceive ==
    /\ oPc = "wait"
    /\ net[oStage].st = "response"
    /\ LET ch == net[oStage]
           final == ConsumeStream(ch.stream, 1, NoMsg)
       IN IF ch.error # NoExc
          THEN /\ pending' = ch.error
               /\ finalMessage' = finalMessage
               /\ oPc' = "close"
          ELSE IF ~final.got
          THEN /\ pending' = Exc("RuntimeError", ch.endpoint, NoError)
               /\ finalMessage' = final
               /\ oPc' = "close"
          ELSE /\ pending' = pending
               /\ finalMessage' = final
               /\ oPc' = "card"
    /\ net' = [net EXCEPT ![oStage] = IdleChannel]
    /\ UNCHANGED <<hvars, svars, lvars, evars, tvars>>
    /\ UNCHANGED <<cfg, oStage, transcript, oReq, oResp, oCard,
                   openHttp, openClients, sentLog, worked, cbLog, oErr, oResult>>

\* `card = await client.get_card()` (orchestrator.py:38), inside the try.
OGetCard(ok) ==
    /\ oPc = "card"
    /\ IF ok
       THEN /\ oCard' = [oCard EXCEPT ![oStage] = Speaker(Deployed(normalized_endpoints[oStage]))]
            /\ pending' = pending
       ELSE /\ oCard' = oCard
            /\ pending' = Exc("A2AClientHTTPError", normalized_endpoints[oStage], NoError)
    /\ oPc' = "close"
    /\ UNCHANGED <<hvars, svars, lvars, evars, tvars>>
    /\ UNCHANGED <<cfg, oStage, transcript, oReq, oResp, finalMessage,
                   openHttp, openClients, net, sentLog, worked, cbLog, oErr, oResult>>

\* OClose swallowing the exception in flight: _send_message returns normally.
OClose_Swallow(closed) ==
    /\ oPc = "close"
    /\ closed
    /\ openClients' = openClients \ {oStage}
    /\ openHttp' = openHttp \ {oStage}
    /\ oResp' = [oResp EXCEPT ![oStage] = finalMessage]
    /\ oPc' = "after"
    /\ oErr' = oErr
    /\ pending' = NoExc
    /\ UNCHANGED <<hvars, svars, lvars, evars, tvars>>
    /\ UNCHANGED <<cfg, oStage, transcript, oReq, oCard, finalMessage,
                   net, sentLog, worked, cbLog, oResult>>

\* The finally block (orchestrator.py:40-42): client.close(), then
\* http_client.aclose(); an exception of the first skips the second. Then
\* _send_message returns (final_message, card) or lets the exception out.
OClose(closed) ==
    /\ oPc = "close"
    /\ IF ~closed
       THEN /\ Fail(Exc("CloseError", NoUrl, NoError))
            /\ UNCHANGED <<openClients, openHttp, oResp>>
       ELSE /\ openClients' = openClients \ {oStage}
            /\ openHttp' = openHttp \ {oStage}
            /\ IF pending # NoExc
               THEN Fail(pending) /\ oResp' = oResp
               ELSE /\ oResp' = [oResp EXCEPT ![oStage] = finalMessage]
                    /\ oPc' = "after"
                    /\ oErr' = oErr
    /\ pending' = NoExc
    /\ UNCHANGED <<hvars, svars, lvars, evars, tvars>>
    /\ UNCHANGED <<cfg, oStage, transcript, oReq, oCard, finalMessage,
                   net, sentLog, worked, cbLog, oResult>>

\* NextStage that goes from the reader straight to the visualizer.
NextStage_SkipAnalyst(stage) == "visualizer"

NextStage(stage) == IF stage = "reader" THEN "analyst" ELSE "visualizer"

\* orchestrator.py:139-171
BuildResult(log) ==
    LET reader_payload == DataOrEmpty(oResp["reader"].msg)
        analyst_payload == DataOrEmpty(oResp["analyst"].msg)
        visual_payload == DataOrEmpty(oResp["visualizer"].msg)
    IN [cards |-> oCard,
        transcript |-> log,
        reader |-> [summary |-> extract_text_from_message(oResp["reader"].msg),
                    metrics |-> Get(reader_payload, "metrics", VNull),
                    records |-> Get(reader_payload, "records", VNull)],
        analyst |-> [analysis |-> extract_text_from_message(oResp["analyst"].msg),
                     structured |-> Get(analyst_payload, "analytics_json", VNull)],
        visualizer |-> [insights |-> extract_text_from_message(oResp["visualizer"].msg),
                        tool_outputs |-> Get(visual_payload, "tool_outputs", VList(<<>>)),
                        artifacts_directory |-> Get(visual_payload, "artifacts_directory", VNull),
                        raw_messages |-> Get(visual_payload, "raw_messages", VList(<<>>))],
        conversation_log |-> [i \in 1..Len(log) |->
                                [speaker |-> log[i].from,
                                 text |-> extract_text_from_message(log[i].message),
                                 data |-> get_data_part(log[i].message)]]]

\* OAfter without the progress callback after the analyst stage.
OAfter_NoAnalystCallback(callback_raises) ==
    /\ oPc = "after"
    /\ callback_raises => cfg.callback
    /\ transcript' = Append(transcript, [from |-> Speaker(oStage), message |-> oResp[oStage].msg])
    /\ cbLog' = IF cfg.callback /\ oStage # "analyst"
                THEN Append(cbLog, [stage |-> oStage, message |-> oResp[oStage].msg])
                ELSE cbLog
    /\ IF callback_raises
       THEN Fail(Exc("CallbackError", NoUrl, NoError)) /\ UNCHANGED <<oStage, oResult>>
       ELSE IF oStage = "visualizer"
       THEN /\ oPc' = "done"
            /\ oResult' = [some |-> TRUE, value |-> BuildResult(transcript')]
            /\ UNCHANGED <<oStage, oErr>>
       ELSE /\ oPc' = "build"
            /\ oStage' = NextStage(oStage)
            /\ UNCHANGED <<oResult, oErr>>
    /\ UNCHANGED <<hvars, svars, lvars, evars, tvars>>
    /\ UNCHANGED <<cfg, oReq, oResp, oCard, finalMessage, pending,
                   openHttp, openClients, net, sentLog, worked>>

\* Back in _run after `await _send_message(...)`: the response joins the
\* transcript, the progress callback (if any) runs and may raise, and _run
\* goes on to the next stage or returns the result.
OAfter(callback_raises) ==
    /\ oPc = "after"
    /\ callback_raises => cfg.callback
    /\ transcript' = Append(transcript, [from |-> Speaker(oStage), message |-> oResp[oStage].msg])
    /\ cbLog' = IF cfg.callback
                THEN Append(cbLog, [stage |-> oStage, message |-> oResp[oStage].msg])
                ELSE cbLog
    /\ IF callback_raises
       THEN Fail(Exc("CallbackError", NoUrl, NoError)) /\ UNCHANGED <<oStage, oResult>>
       ELSE IF oStage = "visualizer"
       THEN /\ oPc' = "done"
            /\ oResult' = [some |-> TRUE, value |-> BuildResult(transcript')]
            /\ UNCHANGED <<oStage, oErr>>
       ELSE /\ oPc' = "build"
            /\ oStage' = NextStage(oStage)
            /\ UNCHANGED <<oResult, oErr>>
    /\ UNCHANGED <<hvars, svars, lvars, evars, tvars>>
    /\ UNCHANGED <<cfg, oReq, oResp, oCard, finalMessage, pending,
                   openHttp, openClients, net, sentLog, worked>>

ONext ==
    \/ OStart
    \/ OBuild
    \/ \E ok \in BOOLEAN : OConnect(ok)
    \/ OSend
    \/ \E stage \in Roles : RemoteServe(stage)
    \/ \E stage \in Roles : \E stream \in ForeignStreams : RemoteForeign(stage, stream)
    \/ \E stage \in Roles : RemoteTimeout(stage)
    \/ OReceive
    \/ \E ok \in BOOLEAN : OGetCard(ok)
    \/ \E closed \in BOOLEAN : OClose(closed)
    \/ \E callback_raises \in BOOLEAN : OAfter(callback_raises)

\* ------------------------------------------------------- handler actions
\* The server create_*_app builds for a role, before its first request.
HInitAs(role) ==
    /\ hPc = "idle"
    /\ hRole = role
    /\ hMsg = <<>>
    /\ hCall = NoCall
    /\ hErr = NoError
    /\ hReply = <<>>
    /\ hArtifacts = {}
    /\ hOther = NoOther
    /\ hHost = {}

HInit == HInitAs("reader")

\* The transport hands a message/send request to the server's handler.
HReceive(role, message, host) ==
    /\ hPc = "idle"
    /\ role = hRole
    /\ hPc' = "received"
    /\ hRole' = hRole
    /\ hMsg' = message
    /\ hCall' = NoCall
    /\ hErr' = NoError
    /\ hReply' = <<>>
    /\ hArtifacts' = {}
    /\ hHost' = host
    /\ UNCHANGED hOther
    /\ UNCHANGED <<ovars, svars, lvars, evars, tvars>>

\* on_message_send runs on the event loop up to `await asyncio.to_thread`:
\* it raises, or hands the work function to a thread.
HDispatch ==
    /\ hPc = "received"
    /\ LET r == Handle(hRole, hMsg)
       IN /\ hPc' = IF r.raised THEN "failed" ELSE "working"
          /\ hErr' = r.err
          /\ hCall' = r.call
    /\ UNCHANGED <<hRole, hMsg, hReply, hArtifacts, hHost>>
    /\ UNCHANGED hOther
    /\ UNCHANGED <<ovars, svars, lvars, evars, tvars>>

\* The work function returns result['message'], an agent message holding the
\* model's text and the role's structured output.
HWorkReturns(run, said) ==
    /\ hPc = "working"
    /\ LET o == WorkOutcome(hCall, hHost, run, said)
       IN /\ ~o.raised
          /\ hReply' = o.message
          /\ hArtifacts' = o.files
    /\ hPc' = "replied"
    /\ UNCHANGED <<hRole, hMsg, hCall, hErr, hHost>>
    /\ UNCHANGED hOther
    /\ UNCHANGED <<ovars, svars, lvars, evars, tvars>>

\* The work function raises: its own code (a missing file, a missing column)
\* or, `upstream`, the model call (a missing credential, the service).
HWorkRaises(run, said, upstream) ==
    /\ hPc = "working"
    /\ LET o == IF upstream THEN WorkError(PyError("UpstreamError"), {})
                ELSE WorkOutcome(hCall, hHost, run, said)
       IN /\ o.raised
          /\ hErr' = o.err
          /\ hArtifacts' = o.files
    /\ hPc' = "failed"
    /\ UNCHANGED <<hRole, hMsg, hCall, hReply, hHost>>
    /\ UNCHANGED hOther
    /\ UNCHANGED <<ovars, svars, lvars, evars, tvars>>

\* The transport has written the response or the error and the request's
\* locals are gone; the next request.
HDone ==
    /\ hPc \in {"replied", "failed"}
    /\ hPc' = "idle"
    /\ hRole' = hRole
    /\ hMsg' = <<>>
    /\ hCall' = NoCall
    /\ hErr' = NoError
    /\ hReply' = <<>>
    /\ hArtifacts' = {}
    /\ hHost' = {}
    /\ UNCHANGED hOther
    /\ UNCHANGED <<ovars, svars, lvars, evars, tvars>>


\* A client invokes a method other than message/send on the server's
\* handler, whatever the message/send request is doing.
HOther(method) ==
    /\ LET fn == HandlerFunction(method)
           r == SimpleRequestHandler(fn)
       IN hOther' = [role |-> hRole, method |-> method, fn |-> fn, raised |-> r.raised,
                     message |-> r.err.message, error |-> r.err.error, call |-> r.call]
    /\ UNCHANGED <<hPc, hRole, hMsg, hCall, hErr, hReply, hArtifacts, hHost>>
    /\ UNCHANGED <<ovars, svars, lvars, evars, tvars>>

HNext ==
    \/ \E role \in Roles : \E message \in RequestsFor(role) : \E host \in Hosts :
          HReceive(role, message, host)
    \/ HDispatch
    \/ \E run \in AgentRuns : \E said \in BOOLEAN : HWorkReturns(run, said)
    \/ \E run \in AgentRuns : \E said \in BOOLEAN : \E upstream \in BOOLEAN :
          HWorkRaises(run, said, upstream)
    \/ HDone
    \/ \E method \in OtherMethods : HOther(method)



\* ------------------------------------------------- server, concurrently
Slots == 1..MaxRequests

\* The chart files one run of run_autogen_visualizer writes, in order: the
\* two calls of render_sales_chart the system prompt asks for, which are also
\* the two default charts.
ChartsToWrite(call) ==
    IF call.fn = "run_autogen_visualizer"
    THEN <<ChartPath(call.args.output_dir, "Sales", "Product"),
           ChartPath(call.args.output_dir, "Sales", "Region")>>
    ELSE <<>>

FreeSlot == [pc |-> "free", role |-> "reader", msg |-> <<>>, call |-> NoCall,
             err |-> NoError, todo |-> <<>>, wrote |-> {}, overlap |-> FALSE]
\* The requests clients send to the server: for each role one that passes
\* validation and one that does not.
ServerRequests(role) ==
    CASE role = "reader" ->
           {create_text_message_with_data(<<"q">>, Some([csv_text |-> DatasetCsv(1)])),
            create_text_message_with_data(<<"q">>, None)}
      [] role = "analyst" ->
           {create_text_message_with_data(<<"q">>,
                Some([records |-> VList(Rows(1)), summary_text |-> VStr(<<"s">>),
                      metrics |-> VDict(<<"m">>)])),
            create_text_message_with_data(<<"q">>, Some([records |-> VList(<<>>)]))}
      [] OTHER ->
           {create_text_message_with_data(<<"q">>,
                Some([records |-> VList(Rows(1)), analysis_text |-> VStr(<<"a">>)])),
            create_text_message_with_data(<<"q">>, Some([records |-> VList(Rows(1))]))}

\* `await asyncio.to_thread(run_..., ...)`: the coroutine gives the event loop
\* up while the thread runs the work function.
ToThread_Inline(slot) == slot
ToThread(slot) == 0

SInit ==
    /\ sReq = [s \in Slots |-> FreeSlot]
    /\ sLoop = 0
    /\ sFiles = [f \in ChartPaths |-> 0]
    /\ sModel = [r \in Roles |-> HandlerModel(r)]

\* The transport, on the event loop, accepts a message/send request and
\* schedules its coroutine.
SReceive(slot, role, message) ==
    /\ sReq[slot].pc = "free"
    /\ sLoop = 0
    /\ sReq' = [sReq EXCEPT ![slot] =
                  [FreeSlot EXCEPT !.pc = "received", !.role = role, !.msg = message]]
    /\ UNCHANGED <<sLoop, sFiles, sModel>>
    /\ UNCHANGED <<hvars, ovars, lvars, evars, tvars>>

\* The event loop runs the request's on_message_send from its entry to the
\* raise or to `await asyncio.to_thread`.
SDispatch(slot) ==
    /\ sReq[slot].pc = "received"
    /\ sLoop = 0
    /\ LET r == HandleAs(sReq[slot].role, sReq[slot].msg, sModel[sReq[slot].role])
           busy == \E t \in Slots \ {slot} : sReq[t].pc = "working"
       IN IF r.raised
          THEN /\ sReq' = [sReq EXCEPT ![slot].pc = "failed", ![slot].err = r.err,
                                       ![slot].overlap = busy]
               /\ sLoop' = 0
          ELSE /\ sReq' = [sReq EXCEPT ![slot].pc = "working", ![slot].call = r.call,
                                       ![slot].todo = ChartsToWrite(r.call),
                                       ![slot].overlap = busy]
               /\ sLoop' = ToThread(slot)
    /\ UNCHANGED <<sFiles, sModel>>
    /\ UNCHANGED <<hvars, ovars, lvars, evars, tvars>>

\* render_sales_chart in the request's thread writes its next chart file.
SWrite(slot) ==
    /\ sReq[slot].pc = "working"
    /\ sReq[slot].todo # <<>>
    /\ LET path == Head(sReq[slot].todo)
       IN /\ sFiles' = [sFiles EXCEPT ![path] = slot]
          /\ sReq' = [sReq EXCEPT ![slot].todo = Tail(@),
                                  ![slot].wrote = @ \cup {path}]
    /\ UNCHANGED <<sLoop, sModel>>
    /\ UNCHANGED <<hvars, ovars, lvars, evars, tvars>>

\* The work function returns and on_message_send returns result['message'].
SWorkReturns(slot) ==
    /\ sReq[slot].pc = "working"
    /\ sReq[slot].todo = <<>>
    /\ sReq' = [sReq EXCEPT ![slot].pc = "replied"]
    /\ sLoop' = IF sLoop = slot THEN 0 ELSE sLoop
    /\ UNCHANGED <<sFiles, sModel>>
    /\ UNCHANGED <<hvars, ovars, lvars, evars, tvars>>

\* The work function raises.
SWorkRaises(slot) ==
    /\ sReq[slot].pc = "working"
    /\ sReq' = [sReq EXCEPT ![slot].pc = "failed", ![slot].err = PyError("UpstreamError")]
    /\ sLoop' = IF sLoop = slot THEN 0 ELSE sLoop
    /\ UNCHANGED <<sFiles, sModel>>
    /\ UNCHANGED <<hvars, ovars, lvars, evars, tvars>>

\* The transport has written the response; the slot takes the next request.
SDone(slot) ==
    /\ sReq[slot].pc \in {"replied", "failed"}
    /\ sReq' = [sReq EXCEPT ![slot] = FreeSlot]
    /\ UNCHANGED <<sLoop, sFiles, sModel>>
    /\ UNCHANGED <<hvars, ovars, lvars, evars, tvars>>

SNext ==
    \/ \E slot \in Slots : \E role \in Roles : \E message \in ServerRequests(role) :
          SReceive(slot, role, message)
    \/ \E slot \in Slots : SDispatch(slot)
    \/ \E slot \in Slots : SWrite(slot)
    \/ \E slot \in Slots : SWorkReturns(slot)
    \/ \E slot \in Slots : SWorkRaises(slot)
    \/ \E slot \in Slots : SDone(slot)

\* ------------------------------------------------------------ the launcher
AGENTS == <<[agent |-> "reader", port |-> 8001],
           [agent |-> "analyst", port |-> 8002],
           [agent |-> "visualizer", port |-> 8003]>>

Signals == {"SIGINT", "SIGTERM"}

\* The launcher process exists: it has neither returned nor been ended.
LauncherAlive == lPc \notin {"exited", "killed", "aborted"}

\* A child process that has not ended yet.
ChildAlive(agent) == lChild[agent] \in {"running", "terminating", "killed"}

LInit ==
    /\ lPc = "launch"
    /\ lIdx = 1
    /\ PROCESSES = <<>>
    /\ lChild = [agent \in Roles |-> "none"]
    /\ lHandlers = {}
    /\ lDelivered = {}

\* main's first loop: Popen one agent and append it to PROCESSES.
start_agent ==
    /\ lPc = "launch"
    /\ lChild' = [lChild EXCEPT ![AGENTS[lIdx].agent] = "running"]
    /\ PROCESSES' = Append(PROCESSES, AGENTS[lIdx].agent)
    /\ IF lIdx < Len(AGENTS)
         THEN lIdx' = lIdx + 1 /\ lPc' = lPc
         ELSE lIdx' = 1 /\ lPc' = "install_int"
    /\ UNCHANGED <<lHandlers, lDelivered>>
    /\ UNCHANGED <<hvars, ovars, svars, evars, tvars>>

\* signal.signal(SIGINT, shutdown), then signal.signal(SIGTERM, shutdown).
InstallHandler ==
    /\ lPc \in {"install_int", "install_term"}
    /\ lHandlers' = lHandlers \cup {IF lPc = "install_int" THEN "SIGINT" ELSE "SIGTERM"}
    /\ lPc' = IF lPc = "install_int" THEN "install_term" ELSE "wait"
    /\ lIdx' = 1
    /\ UNCHANGED <<PROCESSES, lChild, lDelivered>>
    /\ UNCHANGED <<hvars, ovars, svars, evars, tvars>>

\* main's second loop: proc.wait() returns once the child has ended.
MainWait ==
    /\ lPc = "wait"
    /\ lChild[PROCESSES[lIdx]] = "zombie"
    /\ lChild' = [lChild EXCEPT ![PROCESSES[lIdx]] = "reaped"]
    /\ IF lIdx < Len(PROCESSES)
         THEN lIdx' = lIdx + 1 /\ lPc' = lPc
         ELSE lIdx' = 1 /\ lPc' = "exited"
    /\ UNCHANGED <<PROCESSES, lHandlers, lDelivered>>
    /\ UNCHANGED <<hvars, ovars, svars, evars, tvars>>

\* A child ends: on its own, on the SIGTERM of terminate() or on the SIGKILL
\* of kill().
ChildExit(agent) ==
    /\ ChildAlive(agent)
    /\ lChild' = [lChild EXCEPT ![agent] = "zombie"]
    /\ UNCHANGED <<lPc, lIdx, PROCESSES, lHandlers, lDelivered>>
    /\ UNCHANGED <<hvars, ovars, svars, evars, tvars>>

\* A signal reaches the launcher.  With shutdown installed the handler runs
\* (also over a shutdown already running).  Otherwise the default disposition
\* applies: SIGTERM ends the process, SIGINT raises KeyboardInterrupt, which
\* only the try around the second loop catches.
Deliver(sig) ==
    /\ LauncherAlive
    /\ lDelivered' = lDelivered \cup {[sig |-> sig, started |-> Len(PROCESSES)]}
    /\ IF sig \in lHandlers \/ (sig = "SIGINT" /\ lPc = "wait")
         THEN lPc' = "terminate" /\ lIdx' = 1
         ELSE /\ lPc' = IF sig = "SIGTERM" THEN "killed" ELSE "aborted"
              /\ lIdx' = lIdx
    /\ UNCHANGED <<PROCESSES, lChild, lHandlers>>
    /\ UNCHANGED <<hvars, ovars, svars, evars, tvars>>

\* shutdown's first loop: poll() reaps a child that has ended, terminate()
\* sends SIGTERM to one that has not.
ShutdownTerminate ==
    /\ lPc = "terminate"
    /\ LET proc == PROCESSES[lIdx]
       IN  lChild' = [lChild EXCEPT ![proc] =
                        CASE lChild[proc] = "zombie" -> "reaped"
                          [] lChild[proc] = "running" -> "terminating"
                          [] OTHER -> lChild[proc]]
    /\ IF lIdx < Len(PROCESSES)
         THEN lIdx' = lIdx + 1 /\ lPc' = lPc
         ELSE lIdx' = 1 /\ lPc' = "reap"
    /\ UNCHANGED <<PROCESSES, lHandlers, lDelivered>>
    /\ UNCHANGED <<hvars, ovars, svars, evars, tvars>>

\* shutdown's second loop: wait(timeout=5) reaps a child that has ended; on
\* TimeoutExpired the child gets kill() and is not waited for again.  After
\* the loop sys.exit(0) ends the launcher.
ShutdownWait(timeout) ==
    /\ lPc = "reap"
    /\ LET proc == PROCESSES[lIdx]
       IN  /\ timeout <=> ChildAlive(proc)
           /\ lChild' = [lChild EXCEPT ![proc] =
                            CASE lChild[proc] = "zombie" -> "reaped"
                              [] ChildAlive(proc) -> "killed"
                              [] OTHER -> lChild[proc]]
    /\ IF lIdx < Len(PROCESSES)
         THEN lIdx' = lIdx + 1 /\ lPc' = lPc
         ELSE lIdx' = 1 /\ lPc' = "exited"
    /\ UNCHANGED <<PROCESSES, lHandlers, lDelivered>>
    /\ UNCHANGED <<hvars, ovars, svars, evars, tvars>>

LNext ==
    \/ start_agent
    \/ InstallHandler
    \/ MainWait
    \/ \E agent \in Roles : ChildExit(agent)
    \/ \E sig \in Signals : Deliver(sig)
    \/ ShutdownTerminate
    \/ \E timeout \in BOOLEAN : ShutdownWait(timeout)

\* ------------------------------------------------------------ an envelope
\* The characters of the texts: a letter, the quote, the backslash and the
\* line feed.
TextChars == {"a", DQ, BS, NL}
Texts == UNION {[1..n -> TextChars] : n \in 0..MaxText}

\* The structured mappings a caller may hand to create_text_message_with_data.
EnvelopeData ==
    { MkPayload([records |-> a, summary_text |-> b, metrics |-> c]) :
        a \in {Absent, VNull, VList(<<>>), VList(Rows(MaxRows))},
        b \in {Absent, VStr(<<>>), VStr(<<DQ, NL>>), VStr(<<"s", BS>>)},
        c \in {Absent, VDict(<<>>), VDict(<<"m">>), VNum("7")} }

EInitWith(text, data) ==
    /\ ePc = "new"
    /\ eText = text
    /\ eData = data
    /\ eMessage = <<>>
    /\ eWire = <<>>
    /\ eParsed = <<>>

EInit == \E text \in Texts : \E data \in EnvelopeData : EInitWith(text, data)

\* An envelope that is never built.
ENone == EInitWith(<<>>, EmptyPayload)

\* The caller builds the envelope from its text and its mapping.
ECreate ==
    /\ ePc = "new"
    /\ eMessage' = create_text_message_with_data(eText, Some(eData))
    /\ ePc' = "built"
    /\ UNCHANGED <<eText, eData, eWire, eParsed>>
    /\ UNCHANGED <<hvars, ovars, svars, lvars, tvars>>

\* client.send_message serialises it to the wire shape.
ESend ==
    /\ ePc = "built"
    /\ eWire' = ToWire(eMessage)
    /\ ePc' = "wire"
    /\ UNCHANGED <<eText, eData, eMessage, eParsed>>
    /\ UNCHANGED <<hvars, ovars, svars, lvars, tvars>>

\* The receiver parses params.message from the wire.
EReceive ==
    /\ ePc = "wire"
    /\ eParsed' = FromWire(eWire)
    /\ ePc' = "parsed"
    /\ UNCHANGED <<eText, eData, eMessage, eWire>>
    /\ UNCHANGED <<hvars, ovars, svars, lvars, tvars>>

ENext == ECreate \/ ESend \/ EReceive

\* ------------------------------------------------------ the travel planner
\* What a user's message says, as far as route_to_agent tells: a flight
\* only, a flight within a trip to plan, a trip to plan, or something else.
Queries == {"flight", "flight_trip", "trip", "stay"}

\* The contents that hold one of the flight keywords (router.py:16-19).
flight_keywords == {"flight", "flight_trip"}

\* The contents that hold one of the planning words (router.py:24-27).
planning_context == {"flight_trip", "trip"}

HumanMessage(content, turn, by) == [content |-> content, turn |-> turn, by |-> by]

\* state.py:9, the reducer of `messages`: operator.add, list concatenation.
operator_add(messages, update) == messages \o update

\* router.py:3-36
route_to_agent(state) ==
    LET messages == state.messages
    IN IF messages = <<>> THEN "itenary_agent"
       ELSE LET last_message == messages[Len(messages)].content
                has_planning_context == last_message \in planning_context
            IN IF last_message \in flight_keywords /\ ~has_planning_context
               THEN "flight_agent"
               ELSE "itenary_agent"

\* router.py:44-67: the node returns the state it was given.
router_node(state) == state

\* agents.py:42-78, :81-117, :120-209: every agent node returns the messages
\* it was given with its reply (or its apology after an exception) appended.
agent_node(node, state, failed) ==
    LET messages == state.messages
    IN IF messages = <<>>
       THEN [messages |-> <<HumanMessage("prompt", 0, node)>>]
       ELSE [messages |-> messages \o
               <<HumanMessage(IF failed THEN "apology" ELSE "reply",
                              messages[Len(messages)].turn, node)>>]

TInit ==
    /\ tPc = "idle"
    /\ tTurn = 0
    /\ tMessages = <<>>
    /\ tPath = <<>>

\* app.py:105-109: invoke({"messages": [HumanMessage(prompt)]}, config) on the
\* thread: the input is written to the channel and the entry point is next.
TInvoke(query) ==
    /\ tPc = "idle"
    /\ tTurn < MaxInvocations
    /\ tTurn' = tTurn + 1
    /\ tMessages' = operator_add(tMessages, <<HumanMessage(query, tTurn + 1, "user")>>)
    /\ tPath' = <<>>
    /\ tPc' = "router"
    /\ UNCHANGED <<hvars, ovars, svars, lvars, evars>>

\* The router node runs, its return value is written through the reducer, and
\* the conditional edge picks the agent node (graph.py:20, :23-31).
TRouter ==
    /\ tPc = "router"
    /\ LET update == router_node([messages |-> tMessages])
           written == operator_add(tMessages, update.messages)
       IN /\ tMessages' = written
          /\ tPc' = route_to_agent([messages |-> written])
    /\ tPath' = Append(tPath, "router")
    /\ UNCHANGED tTurn
    /\ UNCHANGED <<hvars, ovars, svars, lvars, evars>>

\* The agent node runs, its return value is written through the reducer, and
\* the edge to END ends the invocation (graph.py:34-36).
TAgent(failed) ==
    /\ tPc \in {"flight_agent", "hotel_agent", "itenary_agent"}
    /\ LET update == agent_node(tPc, [messages |-> tMessages], failed)
       IN tMessages' = operator_add(tMessages, update.messages)
    /\ tPath' = tPath \o <<tPc, "END">>
    /\ tPc' = "idle"
    /\ UNCHANGED tTurn
    /\ UNCHANGED <<hvars, ovars, svars, lvars, evars>>

TNext ==
    \/ \E query \in Queries : TInvoke(query)
    \/ TRouter
    \/ \E failed \in BOOLEAN : TAgent(failed)

\* --------------------------------------------------------- specifications
\* One run of orchestrate_sales_insights against the three agent servers.
Init == OInit /\ HInit /\ SInit /\ LInit /\ ENone /\ TInit
Next == ONext
Spec == Init /\ [][Next]_vars

\* One agent server handling message/send requests.
HandlerInit ==
    /\ \E role \in Roles : HInitAs(role)
    /\ OInitWith(CHOOSE c \in Configs : TRUE)
    /\ SInit
    /\ LInit
    /\ ENone
    /\ TInit
HandlerNext == HNext
HandlerSpec == HandlerInit /\ [][HandlerNext]_vars

\* One agent server with several requests in flight and the other methods.
ServerInit == SInit /\ HInit /\ OInitWith(CHOOSE c \in Configs : TRUE) /\ LInit /\ ENone /\ TInit
ServerNext == SNext
ServerSpec == ServerInit /\ [][ServerNext]_vars

\* The all-agents launcher, its three children and the signals sent to it.
LauncherInit == LInit /\ HInit /\ SInit /\ OInitWith(CHOOSE c \in Configs : TRUE) /\ ENone /\ TInit
LauncherNext == LNext
LauncherSpec == LauncherInit /\ [][LauncherNext]_vars

\* One envelope built by a caller, serialised, and parsed by the receiver.
EnvelopeInit == EInit /\ LInit /\ HInit /\ SInit /\ OInitWith(CHOOSE c \in Configs : TRUE) /\ TInit
EnvelopeNext == ENext
EnvelopeSpec == EnvelopeInit /\ [][EnvelopeNext]_vars

\* One checkpointed thread of the travel-planner graph and its invocations.
TravelInit ==
    TInit /\ ENone /\ LInit /\ HInit /\ SInit /\ OInitWith(CHOOSE c \in Configs : TRUE)
TravelNext == TNext
TravelSpec == TravelInit /\ [][TravelNext]_vars

\* ==================================================== orchestrator claims
\* The stages with a request on the wire or a response not yet consumed.
InFlight == {stage \in Roles : net[stage].st # "idle"}

\* C1: stage requests go out in the order Reader, Analyst, Visualizer; a
\* stage's request is built and sent only after the previous stage's response
\* has been returned to _run; two stage calls are never in flight together.
C1_SequentialStages ==
    /\ Len(sentLog) <= 3
    /\ \A i \in 1..Len(sentLog) : sentLog[i].stage = Pipeline[i]
    /\ Cardinality(InFlight) <= 1
    /\ \A i \in 2..3 :
          (oReq[Pipeline[i]].got \/ Pipeline[i] \in InFlight)
              => (oResp[Pipeline[i - 1]].got /\ Pipeline[i - 1] \notin InFlight)

\* The Visualizer's request is on the wire, third of three.
C1_Witness ==
    /\ net["visualizer"].st = "request"
    /\ Len(sentLog) = 3
    /\ oResp["analyst"].got

\* A stage has failed: an exception is on its way out of _send_message, or has
\* left orchestrate_sales_insights.
Failing == oPc = "failed" \/ pending # NoExc

\* C2: once a stage has failed, no further request is sent (no retry, no
\* later stage), no result is returned and the exception reaches the caller.
C2_FailureAborts ==
    [][Failing =>
         /\ Failing'
         /\ sentLog' = sentLog
         /\ \A stage \in Roles : net'[stage].st = "request" => net[stage].st = "request"
         /\ ~oResult'.some
         /\ oPc' = "failed" => oErr' # NoExc]_vars

\* The Analyst's handler rejected its request as a bad request and the run
\* has failed with two requests sent.
C2_Witness ==
    /\ oPc = "failed"
    /\ oStage = "analyst"
    /\ oErr.cls = "A2AClientJSONRPCError"
    /\ oErr.detail.error = "InvalidParamsError"
    /\ Len(sentLog) = 2
    /\ ~oResult.some

\* C3 as stated: every envelope exchanged, request or response, is in the
\* transcript in the order exchanged with its speaker; a successful run's
\* transcript and conversation_log hold request then response for Reader,
\* Analyst, Visualizer.
C3_Original ==
    /\ \A i \in 1..Len(sentLog) :
          \E j \in 1..Len(transcript) :
              transcript[j] = [from |-> "coordinator", message |-> sentLog[i].request]
    /\ oPc = "done" =>
          /\ Len(transcript) = 6
          /\ \A i \in 1..3 :
                /\ transcript[2 * i - 1] = [from |-> "coordinator", message |-> oReq[Pipeline[i]].msg]
                /\ transcript[2 * i] = [from |-> Speaker(Pipeline[i]), message |-> oResp[Pipeline[i]].msg]
          /\ Len(oResult.value.conversation_log) = 6

\* The run failed inside _send_message: at the connect, at the send, for want
\* of a response, or at the card.
StageFailure ==
    /\ oPc = "failed"
    /\ oErr.cls \in {"ConnectError", "A2AClientJSONRPCError", "A2AClientTimeoutError",
                     "RuntimeError", "A2AClientHTTPError"}

\* The agent a handler's bad-request message names.
AgentNamed(message) ==
    CASE message \in {"Reader agent expects 'dataset_path', 'csv_text', or 'records'."} -> {"reader"}
      [] message \in {"Analyst agent expected 'records' to be a list of dictionaries.",
                      "Analyst agent expects 'records', 'summary_text', and 'metrics'."} -> {"analyst"}
      [] message \in {"Visualizer agent expected 'records' to be a list of dictionaries.",
                      "Visualizer agent expects 'records' and 'analysis_text'."} -> {"visualizer"}
      [] OTHER -> {}

\* The stages an exception can be attributed to from what it carries: the
\* roles configured at the endpoint it names, or the agent its message names.
StagesNamed(e) ==
    IF e.endpoint # NoUrl
    THEN {r \in DOMAIN normalized_endpoints : normalized_endpoints[r] = e.endpoint}
    ELSE AgentNamed(e.detail.message)

\* C4 as stated: a failure surfaced to the caller identifies the stage that
\* failed; an unreachable Analyst endpoint gives a connectivity failure
\* attributed to "analyst" and no transcript entry of the Visualizer.
C4_Original ==
    /\ StageFailure => StagesNamed(oErr) = {oStage}
    /\ (oPc = "failed" /\ oStage = "analyst") =>
          \A j \in 1..Len(transcript) : transcript[j].from # Speaker("visualizer")

\* Control is inside _send_message.
InSendMessage == oPc \in {"connect", "send", "wait", "card", "close"}

\* C5 as stated: whenever _send_message has returned or raised, every HTTP
\* client and agent client it opened is closed.
C5_Original ==
    ~InSendMessage => (openHttp = {} /\ openClients = {})

RequestData(stage) == get_data_part(oReq[stage].msg).data
ResponseData(stage) ==
    LET d == get_data_part(oResp[stage].msg)
    IN IF d.some THEN d.data ELSE EmptyPayload
ResponseText(stage) == VStr(extract_text_from_message(oResp[stage].msg))

\* The values a stage's received response holds: its text and its payload's
\* entries.
FromResponse(stage) ==
    {ResponseText(stage)} \cup {ResponseData(stage)[k] : k \in DOMAIN ResponseData(stage)}

\* The values of the run's configuration, and the empty defaults.
FromConfig ==
    {default_models[k] : k \in DOMAIN default_models}
      \cup {DatasetPath, DatasetCsv(cfg.rows), ArtifactsDir}
EmptyDefaults == {VList(<<>>), VDict(<<>>)}

Carries(stage, key, from, default) ==
    RequestData(stage)[key] =
        IF key \in DOMAIN ResponseData(from) THEN ResponseData(from)[key] ELSE default

\* C6 as stated: the Analyst request carries the Reader response's records,
\* metrics and text; the Visualizer request carries the Analyst response's
\* text; every value of a stage request comes from the previous stage's
\* response or the configuration.
C6_Original ==
    /\ oReq["reader"].got =>
          \A k \in DOMAIN RequestData("reader") : RequestData("reader")[k] \in FromConfig
    /\ oReq["analyst"].got =>
          /\ Carries("analyst", "records", "reader", VList(<<>>))
          /\ Carries("analyst", "metrics", "reader", VDict(<<>>))
          /\ RequestData("analyst")["summary_text"] = ResponseText("reader")
          /\ \A k \in DOMAIN RequestData("analyst") :
                RequestData("analyst")[k] \in FromResponse("reader") \cup FromConfig \cup EmptyDefaults
    /\ oReq["visualizer"].got =>
          /\ RequestData("visualizer")["analysis_text"] = ResponseText("analyst")
          /\ \A k \in DOMAIN RequestData("visualizer") :
                RequestData("visualizer")[k] \in FromResponse("analyst") \cup FromConfig \cup EmptyDefaults

\* C6 amended: as C6, except that the Visualizer request's records are the
\* Reader response's records, so that a stage request holds values of earlier
\* stages' responses, not only of the previous one; records and metrics the
\* Reader response lacks are sent as [] and {}.
C6_Threading ==
    /\ oReq["reader"].got =>
          \A k \in DOMAIN RequestData("reader") : RequestData("reader")[k] \in FromConfig
    /\ oReq["analyst"].got =>
          /\ Carries("analyst", "records", "reader", VList(<<>>))
          /\ Carries("analyst", "metrics", "reader", VDict(<<>>))
          /\ RequestData("analyst")["summary_text"] = ResponseText("reader")
          /\ \A k \in DOMAIN RequestData("analyst") :
                RequestData("analyst")[k] \in FromResponse("reader") \cup FromConfig \cup EmptyDefaults
    /\ oReq["visualizer"].got =>
          /\ Carries("visualizer", "records", "reader", VList(<<>>))
          /\ RequestData("visualizer")["analysis_text"] = ResponseText("analyst")
          /\ \A k \in DOMAIN RequestData("visualizer") :
                RequestData("visualizer")[k] \in
                    FromResponse("reader") \cup FromResponse("analyst") \cup FromConfig \cup EmptyDefaults

\* The Visualizer request is built and holds the Reader's rows, which the
\* Analyst's response does not hold.
C6_Witness ==
    /\ oReq["visualizer"].got
    /\ Truthy(RequestData("visualizer")["records"])
    /\ RequestData("visualizer")["records"] \notin FromResponse("analyst")
    /\ Truthy(RequestData("visualizer")["analysis_text"])

\* ========================================================= handler claims
\* The served request has been through on_message_send's validation.
HDispatched == hMsg # <<>> /\ hPc # "received"

\* Key k of the request's structured payload is missing: no data part, no
\* such key, or JSON null.
Missing(message, k) ==
    LET d == get_data_part(message)
    IN ~d.some \/ k \notin DOMAIN d.data \/ d.data[k] = VNull

EmptyList(message, k) ==
    LET d == get_data_part(message)
    IN d.some /\ k \in DOMAIN d.data /\ d.data[k] = VList(<<>>)

HRejectedAsBadRequest ==
    /\ hPc \in {"failed", "idle"}
    /\ hErr.kind = "ServerError"
    /\ hErr.error = "InvalidParamsError"
    /\ hCall = NoCall
    /\ hReply = <<>>

AnalystIncomplete(message) ==
    \/ Missing(message, "records")
    \/ EmptyList(message, "records")
    \/ Missing(message, "summary_text")
    \/ Missing(message, "metrics")

\* C7: an Analyst request in which any of records, summary_text, metrics is
\* missing (no data part and an empty records list included) fails with a
\* bad-request error and run_crewai_analysis is never called for it.
C7_AnalystIncompleteRejected ==
    (HDispatched /\ hRole = "analyst" /\ AnalystIncomplete(hMsg))
        => HRejectedAsBadRequest

\* An Analyst request with an empty records list and the other two keys
\* present has been rejected.
C7_Witness ==
    /\ hRole = "analyst"
    /\ hPc = "failed"
    /\ EmptyList(hMsg, "records")
    /\ ~Missing(hMsg, "summary_text")
    /\ ~Missing(hMsg, "metrics")

VisualizerIncomplete(message) ==
    \/ Missing(message, "records")
    \/ EmptyList(message, "records")
    \/ Missing(message, "analysis_text")

\* C8: a Visualizer request whose records is empty or missing, or whose
\* analysis_text is missing, fails with a bad-request error;
\* run_autogen_visualizer is never called and no chart is written.
C8_VisualizerIncompleteRejected ==
    (HDispatched /\ hRole = "visualizer" /\ VisualizerIncomplete(hMsg))
        => (HRejectedAsBadRequest /\ hArtifacts = {})

\* A Visualizer request with rows but no analysis_text has been rejected.
C8_Witness ==
    /\ hRole = "visualizer"
    /\ hPc = "failed"
    /\ ~Missing(hMsg, "records")
    /\ Truthy(get_data_part(hMsg).data["records"])
    /\ IsList(get_data_part(hMsg).data["records"])
    /\ Missing(hMsg, "analysis_text")

ReaderInputs == {"dataset_path", "csv_text", "records"}

\* on_message_send handed run_langchain_reader to a thread.
HReaderInvoked ==
    /\ hPc \in {"working", "replied", "failed", "idle"}
    /\ hCall.fn = "run_langchain_reader"
    /\ hErr.error # "InvalidParamsError"

NonEmpty(message, k) == ~Missing(message, k) /\ Truthy(get_data_part(message).data[k])

\* The input the frame is built from exists and builds.
ReaderFrameBuilds(message) ==
    LET p == DataOrEmpty(message)
    IN IF NonEmpty(message, "records") THEN DataFrameOk(p["records"])
       ELSE IF NonEmpty(message, "csv_text") THEN ReadCsvOk(p["csv_text"])
       ELSE NonEmpty(message, "dataset_path")

RecordsNotAList(message) ==
    ~Missing(message, "records") /\ ~IsList(get_data_part(message).data["records"])

\* C10 as stated: in every handler a records value that is present and not a
\* list is reported as a bad-request error and the work is not invoked.
C10_Original ==
    (HDispatched /\ RecordsNotAList(hMsg)) => HRejectedAsBadRequest

\* --------------------------------------------------------------------- C11
\* C11: on each of the three handlers, each method other than message/send
\* raises an error whose message names exactly the method invoked, whatever
\* the requests in flight are doing, and hands nothing to the role's work
\* function.
C11_UnsupportedNamesMethod ==
    hOther # NoOther =>
        /\ hOther.raised
        /\ hOther.message = <<"Method '", hOther.method, "' not supported.">>
        /\ hOther.call = NoCall

\* tasks/cancel was invoked on the visualizer's handler while its
\* message/send request was at work.
C11_Witness ==
    /\ hOther.role = "visualizer"
    /\ hOther.method = "tasks/cancel"
    /\ hOther.message = <<"Method '", "tasks/cancel", "' not supported.">>
    /\ hPc = "working"
    /\ hRole = "visualizer"

\* --------------------------------------------------------------------- C12
\* The stream held neither a Message nor a Task with a history.
YieldsNothing(stream) ==
    \A i \in 1..Len(stream) : stream[i].type = "task" /\ stream[i].history = <<>>

NoResponseArrived ==
    /\ oPc = "wait"
    /\ net[oStage].st = "response"
    /\ net[oStage].error = NoExc
    /\ YieldsNothing(net[oStage].stream)

\* C12: when the response stream of a send ends without a Message and without
\* a Task that has a history, _send_message raises the no-response
\* RuntimeError instead of returning, and the run fails at that stage: no
\* response is recorded for the stage and no result is returned.
C12_NoResponseFails ==
    [][/\ NoResponseArrived /\ oPc' # oPc =>
            /\ oPc' = "close"
            /\ pending'.cls = "RuntimeError"
            /\ pending'.endpoint = normalized_endpoints[oStage]
       /\ pending.cls = "RuntimeError" /\ oPc' # oPc =>
            /\ oPc' = "failed"
            /\ oErr' # NoExc
            /\ ~oResp'[oStage].got
            /\ ~oResult'.some]_vars

\* The Analyst's stream ended without a response and the run failed with the
\* no-response error, the Visualizer never contacted.
C12_Witness ==
    /\ oPc = "failed"
    /\ oErr.cls = "RuntimeError"
    /\ oStage = "analyst"
    /\ oResp["reader"].got
    /\ \A i \in 1..Len(sentLog) : sentLog[i].stage # "visualizer"

\* --------------------------------------------------------------------- C13
\* A terminal response: a direct Message, or a finalized Task.
Terminal(event) ==
    \/ event.type = "message"
    \/ event.type = "task" /\ event.state = "completed" /\ event.history # <<>>
TerminalMessage(event) ==
    IF event.type = "message" THEN event.message ELSE event.history[Len(event.history)]

\* C13 as stated: a call of _send_message puts exactly one envelope on the
\* wire, and when it goes on to return, the stream it consumed held exactly
\* one terminal response (a Message, or a finalized Task with a history) and
\* the response returned is that one.
C13_Original ==
    [][/\ oPc = "send" /\ oPc' # oPc => Len(sentLog') = Len(sentLog) + 1
       /\ oPc = "wait" /\ oPc' = "card" =>
            LET stream == net[oStage].stream
                terminal == {i \in 1..Len(stream) : Terminal(stream[i])}
            IN /\ Cardinality(terminal) = 1
               /\ \A i \in terminal : finalMessage'.msg = TerminalMessage(stream[i])]_vars

\* --------------------------------------------------------------------- C14
\* The responses _run has taken back from _send_message and recorded.
ResponsesRecorded ==
    Cardinality({i \in 1..Len(transcript) : transcript[i].from # "coordinator"})

\* C14: a supplied progress callback has been invoked exactly once for each
\* stage whose response _run has recorded, in the order reader, analyst,
\* visualizer, with the stage's name and its response, and before the next
\* stage's request is sent; when it raised, the run has failed with that
\* exception, nothing was sent after it and no result exists. Without a
\* callback nothing is invoked.
C14_CallbackPerStage ==
    /\ ~cfg.callback => cbLog = <<>>
    /\ cfg.callback =>
        /\ Len(cbLog) = ResponsesRecorded
        /\ \A i \in 1..Len(cbLog) :
              /\ cbLog[i].stage = Pipeline[i]
              /\ oResp[Pipeline[i]].got
              /\ cbLog[i].message = oResp[Pipeline[i]].msg
        /\ Len(sentLog) <= Len(cbLog) + 1
        /\ \A i \in 1..Len(sentLog) : sentLog[i].stage = Pipeline[i]
    /\ oErr.cls = "CallbackError" =>
        /\ oPc = "failed"
        /\ Len(sentLog) = Len(cbLog)
        /\ ~oResult.some

\* The callback ran for the reader and then raised after the analyst's
\* response: the run failed and the visualizer was never sent a request.
C14_Witness ==
    /\ cfg.callback
    /\ oErr.cls = "CallbackError"
    /\ Len(cbLog) = 2
    /\ cbLog[2].stage = "analyst"
    /\ cbLog[2].message = oResp["analyst"].msg
    /\ Len(sentLog) = 2

\* --------------------------------------------------------------------- C15
HPayload == DataOrEmpty(hMsg)

\* The request carries a dataset_path and usable inlined text, as the
\* orchestrator's Reader request does, and no records.
PathAndInlinedText ==
    /\ hRole = "reader"
    /\ hPc \in {"working", "replied", "failed"}
    /\ Truthy(Get(HPayload, "dataset_path", VNull))
    /\ ReadCsvOk(Get(HPayload, "csv_text", VNull))
    /\ ~Truthy(Get(HPayload, "records", VNull))

\* C15 as stated: a Reader request with both dataset_path and csv_text is
\* worked from the inlined text alone: when the path is not on the agent's
\* host the work still does not fail for the file (only the model call can
\* fail it).
C15_Original ==
    PathAndInlinedText /\ Get(HPayload, "dataset_path", VNull) \notin hHost /\ hPc = "failed"
        => hErr.kind = "UpstreamError"

\* --------------------------------------------------------------------- C16
\* A Reader payload with a non-empty list of records and nothing else to load.
RecordsOnly ==
    /\ hRole = "reader"
    /\ hPc \in {"working", "replied", "failed"}
    /\ IsList(Get(HPayload, "records", VNull))
    /\ Truthy(Get(HPayload, "records", VNull))
    /\ "dataset_path" \notin DOMAIN HPayload

\* C16 as stated: for a Reader payload with records, whatever columns the
\* records have, the work raises no missing-key error, and its reply's schema
\* is the records' field names in first-seen order.
C16_Original ==
    RecordsOnly =>
        /\ hPc = "failed" => hErr.kind # "KeyError"
        /\ hPc = "replied" =>
              Get(DataOrEmpty(hReply), "schema", VNull)
                = VList(ColumnsOfRows(Get(HPayload, "records", VNull).v, <<>>))

\* --------------------------------------------------------------------- C17
\* The value the metrics' totals hold under a key, "" when the key is absent.
TotalsGet(metrics, key) ==
    IF metrics.t = "dict" /\ \E i \in 1..(Len(metrics.v) - 1) : metrics.v[i] = key
    THEN metrics.v[(CHOOSE i \in 1..(Len(metrics.v) - 1) : metrics.v[i] = key) + 1]
    ELSE ""

\* C17 as stated: when the repository's Reader served the run, the result's
\* reader metrics are the Reader response's metrics unchanged and hold, under
\* totals.sales, the sum of the dataset's Sales column.
C17_Original ==
    oResult.some /\ Has(worked, "reader") =>
        /\ oResult.value.reader.metrics
             = Get(DataOrEmpty(oResp["reader"].msg), "metrics", VNull)
        /\ TotalsGet(oResult.value.reader.metrics, "sales")
             = NumStr(SumSales(Rows(cfg.rows)))

\* --------------------------------------------------------------------- C20
\* The run's tool results, as raw_messages reports them, hold no chart.
NoChartFromLoop ==
    LET raw == Get(DataOrEmpty(hReply), "raw_messages", VList(<<>>)).v
    IN \A i \in 1..Len(raw) : raw[i] \in {"task", "raw"}

\* C20 as stated: when the Visualizer's tool-call loop produced no chart (its
\* tool results carry no figure_path: there were none, or all were errors),
\* the reply's tool_outputs are the two default charts, Sales by Product and
\* Sales by Region.
C20_Original ==
    hRole = "visualizer" /\ hPc = "replied" /\ NoChartFromLoop =>
        Get(DataOrEmpty(hReply), "tool_outputs", VNull)
          = VList(<<"sales_by_product.json", "sales_by_region.json">>)

\* --------------------------------------------------------------------- C18
\* C18: while a request's work function is running, no coroutine holds the
\* event loop, so the loop is free to accept, validate and answer another
\* request.
C18_LoopFreeDuringWork ==
    (\E s \in Slots : sReq[s].pc = "working") => sLoop = 0

\* A second request was validated and rejected as a bad request while the
\* first request's work was still running.
C18_Witness ==
    \E s, t \in Slots :
        /\ s # t
        /\ sReq[s].pc = "working"
        /\ sReq[t].pc = "failed"
        /\ sReq[t].overlap
        /\ sReq[t].err.error = "InvalidParamsError"

\* --------------------------------------------------------------------- C19
\* C19 as stated: the handlers' default models are those given at
\* construction, and no request in flight has had a file it wrote overwritten
\* by another request.
C19_Original ==
    /\ sModel = [r \in Roles |-> HandlerModel(r)]
    /\ \A s \in Slots :
          sReq[s].pc = "working" =>
              \A path \in sReq[s].wrote : sFiles[path] = s

\* ========================================================= launcher claims
\* A termination signal reached the launcher after it had started a child.
SignalledWithChildren == \E d \in lDelivered : d.started >= 1

\* The children the launcher started that it has not reaped.
Unreaped == {agent \in Roles : lChild[agent] \notin {"none", "reaped"}}

\* C21: once a SIGINT or SIGTERM has reached the launcher after it started at
\* least one child and the launcher is gone, every child it started has been
\* terminated and reaped: none is left running.
C21_Original ==
    (SignalledWithChildren /\ ~LauncherAlive) => Unreaped = {}

\* ============================================================ model claims
\* The model identifier the orchestrator has built in for a role.
BuiltinModel(role) ==
    IF role = "visualizer" THEN VStr(<<"gpt-4o">>) ELSE VStr(<<"gpt-4o-mini">>)

\* The model identifier a run with these model_overrides has to send to a role.
ExpectedModel(model_overrides, role) ==
    IF model_overrides.some /\ role \in DOMAIN model_overrides.data
    THEN model_overrides.data[role]
    ELSE BuiltinModel(role)

\* The `model` entry of a request's data part, Absent when it has none.
SentModel(request) == Get(DataOrEmpty(request), "model", Absent)

\* C22: the model identifier in each stage's request is the override given
\* for that role in model_overrides when there is one, and the built-in
\* default otherwise; an override for one role changes no other role's model.
C22_ModelPerRole ==
    \A i \in 1..Len(sentLog) :
        SentModel(sentLog[i].request) = ExpectedModel(cfg.overrides, sentLog[i].stage)

\* A run with an override for the analyst only has sent all three requests.
C22_Witness ==
    /\ cfg.overrides.some
    /\ DOMAIN cfg.overrides.data = {"analyst"}
    /\ Len(sentLog) = 3
    /\ SentModel(sentLog[2].request) = VStr(<<"custom-model">>)
    /\ SentModel(sentLog[3].request) = VStr(<<"gpt-4o">>)

\* The request's structured payload has a `model` entry.
SuppliesModel == "model" \in DOMAIN HPayload

\* The handler has handed a call of the role's work function to a thread.
HInvoked == hPc \in {"working", "replied", "failed"} /\ hCall.fn # ""

\* C23: the model identifier a handler passes to the role's work function is
\* the request payload's `model` whenever the request has that entry, and the
\* handler's configured default only when it has none.
C23_RequestModelFirst ==
    HInvoked =>
        hCall.args["llm_model"] =
            IF SuppliesModel THEN HPayload["model"] ELSE HandlerModel(hRole)

\* An Analyst request naming a model other than the handler's default has
\* reached run_crewai_analysis with that model.
C23_Witness ==
    /\ HInvoked
    /\ hRole = "analyst"
    /\ SuppliesModel
    /\ HPayload["model"] = VStr(<<"custom-model">>)
    /\ hCall.args["llm_model"] = VStr(<<"custom-model">>)

\* ========================================================= endpoint claims
\* The endpoints the run was configured with, before normalisation.
ConfiguredEndpoints == Endpoints(cfg.endpoints)

\* An address that holds the scheme and authority of a configured URL and
\* nothing else.
OnlySchemeHostPort(address, configured) ==
    /\ urlsplit(address).scheme = urlsplit(configured).scheme
    /\ urlsplit(address).netloc = urlsplit(configured).netloc
    /\ urlsplit(address).path = ""
    /\ urlsplit(address).query = ""
    /\ urlsplit(address).fragment = ""

\* C24: for every configured endpoint URL the address the orchestrator
\* connects to retains only scheme, host and port (path, query and fragment
\* are removed), and normalising that address again leaves it unchanged.
C24_Original ==
    oPc = "connect" =>
        \A name \in DOMAIN normalized_endpoints :
            /\ OnlySchemeHostPort(normalized_endpoints[name], ConfiguredEndpoints[name])
            /\ NormalizeEndpoint(normalized_endpoints[name]) = normalized_endpoints[name]

\* ========================================================= envelope claims
\* The envelope has been through the wire.
RoundTripped == ePc = "parsed"

UnsupportedRaised == hOther.raised

\* The server has answered a message/send request with a bad-request error.
BadRequestRaised == hPc = "failed" /\ hErr.kind = "ServerError"

\* C26: the error a handler returns for an unsupported method carries a
\* different condition tag from the error it returns for a bad request, so
\* that the two can be told apart by the error kind alone.
C26_Original ==
    (UnsupportedRaised /\ BadRequestRaised) => hOther.error # hErr.error

\* ================================================== empty-records claims
\* The `records` of the Reader's response, Absent when it has none.
ReaderRecords == Get(DataOrEmpty(oResp["reader"].msg), "records", Absent)

\* The Reader has answered without a non-empty `records` list: no structured
\* payload, no `records` entry, or an empty or ill-typed one.
NoReaderRecords ==
    oResp["reader"].got /\ ~(ReaderRecords.t = "list" /\ ReaderRecords.v # <<>>)

\* The Analyst requests sent so far.
AnalystRequests ==
    {sentLog[i].request : i \in {j \in 1..Len(sentLog) : sentLog[j].stage = "analyst"}}

\* The Analyst handler answers the request with a bad-request error.
AnalystRejects(request) ==
    /\ Handle("analyst", request).raised
    /\ Handle("analyst", request).err.error = "InvalidParamsError"

\* The bad-request error of the Analyst's server is on its way to the caller:
\* on the wire, raised inside _send_message, or raised by the run.
AnalystRejectionSeen ==
    /\ oStage = "analyst"
    /\ \/ net["analyst"].error.detail.error = "InvalidParamsError"
       \/ pending.detail.error = "InvalidParamsError"
       \/ oErr.detail.error = "InvalidParamsError"

VisualizerContacted == \E i \in 1..Len(sentLog) : sentLog[i].stage = "visualizer"

\* C27 as stated: when the Reader's response has no structured payload or no
\* records, the Analyst request is still sent, with `records` [] and
\* `metrics` {}; the Analyst handler rejects it as a bad request, the run
\* fails and the Visualizer is never contacted.
C27_Original ==
    NoReaderRecords =>
        /\ \A request \in AnalystRequests :
              /\ DataOrEmpty(request)["records"] = VList(<<>>)
              /\ DataOrEmpty(request)["metrics"] = VDict(<<>>)
              /\ AnalystRejects(request)
        /\ \A i \in 1..Len(worked) : worked[i] # "analyst"
        /\ AnalystRejectionSeen => ~oResult.some /\ ~VisualizerContacted

\* C27, amended: when the Reader's response has no non-empty `records` list,
\* the Analyst request is still sent, with the response's own `records` and
\* `metrics` where it has them and [] and {} where it has not; the Analyst
\* handler rejects it as a bad request and does no work, and once the
\* rejection has arrived no result is returned and the Visualizer is never
\* contacted.
C27_EmptyRecordsRejected ==
    NoReaderRecords =>
        /\ \A request \in AnalystRequests :
              /\ DataOrEmpty(request)["records"] =
                    Get(DataOrEmpty(oResp["reader"].msg), "records", VList(<<>>))
              /\ DataOrEmpty(request)["metrics"] =
                    Get(DataOrEmpty(oResp["reader"].msg), "metrics", VDict(<<>>))
              /\ AnalystRejects(request)
        /\ \A i \in 1..Len(worked) : worked[i] # "analyst"
        /\ AnalystRejectionSeen => ~oResult.some /\ ~VisualizerContacted

\* The Reader answered an empty dataset with `records` [] and its metrics;
\* the Analyst request carried both, was rejected, and the run has failed.
C27_Witness ==
    /\ NoReaderRecords
    /\ ReaderRecords = VList(<<>>)
    /\ AnalystRequests # {}
    /\ \A request \in AnalystRequests : DataOrEmpty(request)["metrics"] # VDict(<<>>)
    /\ oErr.detail.error = "InvalidParamsError"
    /\ oPc = "failed"

\* ================================================= missing-endpoint claims
\* agent_endpoints was supplied and lacks the entry of a role.
EndpointMissing ==
    /\ cfg.endpoints.some
    /\ DOMAIN cfg.endpoints.data # {}
    /\ \E role \in Roles : role \notin DOMAIN cfg.endpoints.data

\* C28: when agent_endpoints is supplied but has no entry for one of the
\* three roles, the run fails before any stage request is sent and no agent
\* performs work; the supplied mapping is not merged with the defaults.
C28_Original ==
    EndpointMissing =>
        /\ DOMAIN normalized_endpoints = DOMAIN cfg.endpoints.data
        /\ sentLog = <<>>
        /\ worked = <<>>
        /\ ~oResult.some

\* ================================================================ UI claims
\* The key under which the UI passes the model entered for a role's agent.
UiOverrideKey(role) ==
    CASE role = "reader" -> "langchain"
      [] role = "analyst" -> "crewai"
      [] OTHER -> "autogen"

\* The run was started by the UI: model_overrides has the UI's three keys.
StartedByUi ==
    /\ cfg.overrides.some
    /\ DOMAIN cfg.overrides.data = {UiOverrideKey(role) : role \in Roles}

\* C29: the model identifiers entered in the UI for the three agents and
\* passed as model_overrides are the `model` values sent in the Reader, Analyst
\* and Visualizer requests respectively.
C29_Original ==
    StartedByUi =>
        \A i \in 1..Len(sentLog) :
            SentModel(sentLog[i].request) = cfg.overrides.data[UiOverrideKey(sentLog[i].stage)]

\* =================================================== travel-planner claims
\* An invocation has run to END.
InvocationEnded == tPc = "idle" /\ tTurn > 0

\* C30: each invocation on a checkpointed thread goes router, one agent node,
\* END and adds exactly two messages to the history, the user's message once
\* and the agent's reply once, the reply last: after n invocations the
\* history holds exactly 2n messages, none of them twice.
C30_Original ==
    InvocationEnded =>
        /\ Len(tPath) = 3
        /\ tPath[1] = "router"
        /\ tPath[2] \in {"flight_agent", "hotel_agent", "itenary_agent"}
        /\ tPath[3] = "END"
        /\ Len(tMessages) = 2 * tTurn
        /\ \A i, j \in 1..Len(tMessages) : i # j => tMessages[i] # tMessages[j]
        /\ tMessages[Len(tMessages)].by = tPath[2]

====
